---- MODULE Spec2Model ----
(***************************************************************************)
(* A model of the leveled logging engine vendored under                    *)
(* vendor/fortio.org/log (logger.go, console logging, http logging).       *)
(*                                                                         *)
(* A log record is modelled by the render mode it was produced in, the     *)
(* level it was rendered at and the sequence of fields the format string   *)
(* of the code puts into it, in the order the format string has them.      *)
(***************************************************************************)
EXTENDS Integers, Sequences, FiniteSets, TLC

VARIABLES
    levelInternal,  \* the atomic threshold (logger.go levelInternal)
    Config,         \* the process-wide LogConfig
    Color,          \* cached color flag (console logging)
    Colors,         \* the palette: the ANSI escape codes or empty strings
    LevelToColor,   \* the palette entry of each level
    console,        \* TRUE iff the current sink jWriter.w is a terminal
    stdOut,         \* output of go's standard logger: the sink, or the logWriter adapter
    last,           \* the call of the application that has just returned
    events,         \* what that call did, in order: sink writes, FatalExit calls, panic
    gs,             \* concurrent callers: position and locals of each goroutine
    jMutex,         \* holder of jWriter.mutex (0: free)
    stdMutex,       \* holder of the standard logger's mutex (0: free)
    inWrite,        \* goroutines that are inside Write on the sink
    jw,             \* jWriter's shared buffers, the clock, what Write last received
    rr,             \* a ResponseRecorder and the calls made on it so far
    hc              \* the grpc-health-checking server

vars == <<levelInternal, Config, Color, Colors, LevelToColor, console, stdOut, last,
          events,
          gs, jMutex, stdMutex, inWrite, jw, rr, hc>>

\* What the logging engine does not touch.
otherVars == <<rr, hc, jw>>

-----------------------------------------------------------------------------
(* Levels *)

Debug == 0
Verbose == 1
Info == 2
Warning == 3
Error == 4
Critical == 5
Fatal == 6
NoLevel == 7

\* The values of the Level enumeration.
Levels == Debug..NoLevel

\* Level is an int32: how far around the enumeration the values a caller passes go.
LevelSlack == 2

LevelArgs == (Debug - LevelSlack)..(NoLevel + LevelSlack)

LevelToStrA == <<"Debug", "Verbose", "Info", "Warning", "Error", "Critical", "Fatal">>

LevelToJSON == <<"dbug", "trace", "info", "warn", "err", "crit", "fatal", "info">>

LevelToText == <<"DBG", "VRB", "INF", "WRN", "ERR", "CRI", "FTL", "">>

\* func (l Level) String()
LevelString(l) == LevelToStrA[l + 1]

\* strings.ToLower on the strings the model passes around.
ToLower(s) ==
    CASE s = "Debug" -> "debug"
      [] s = "Verbose" -> "verbose"
      [] s = "Info" -> "info"
      [] s = "INFO" -> "info"
      [] s = "iNFO" -> "info"
      [] s = "Warning" -> "warning"
      [] s = "Error" -> "error"
      [] s = "Critical" -> "critical"
      [] s = "CRITICAL" -> "critical"
      [] s = "Fatal" -> "fatal"
      [] s = "Bogus" -> "bogus"
      [] s = "Accept" -> "accept"
      [] s = "User-Agent" -> "user-agent"
      [] s = "X-Forwarded-For" -> "x-forwarded-for"
      [] s = "X-Forwarded-Host" -> "x-forwarded-host"
      [] s = "X-Forwarded-Proto" -> "x-forwarded-proto"
      [] OTHER -> s

\* strings.TrimSpace on the strings the model passes around.
TrimSpace(s) ==
    CASE s = " info " -> "info"
      [] s = " Debug" -> "Debug"
      [] OTHER -> s

\* The map init() builds: every name of LevelToStrA and its lower-case form.
levelToStrM ==
    [s \in {LevelToStrA[i] : i \in 1..Len(LevelToStrA)}
           \cup {ToLower(LevelToStrA[i]) : i \in 1..Len(LevelToStrA)} |->
        (CHOOSE i \in 1..Len(LevelToStrA) :
            LevelToStrA[i] = s \/ ToLower(LevelToStrA[i]) = s) - 1]

\* ValidateLevel: the level and whether an error is returned.
ValidateLevel(str) ==
    IF str \in DOMAIN levelToStrM
    THEN [lvl |-> levelToStrM[str], err |-> FALSE]
    ELSE [lvl |-> -1, err |-> TRUE]

\* Level strings a caller, a flag or the environment may supply.
LevelStrings ==
    {"Debug", "debug", "Info", "info", "INFO", "iNFO", " info ", "Warning",
     "Critical", "CRITICAL", "Fatal", "fatal", "bogus", "Bogus", ""}

\* Values of LOGGER_LEVEL in the environment ("" : not set).
EnvLevels ==
    {"", "Debug", "info", "INFO", "Warning", "Critical", "CRITICAL", "Fatal", "bogus"}

-----------------------------------------------------------------------------
(* Configuration *)

\* A faulty variant of DefaultConfig: request and response are not combined.
DefaultConfig_separate ==
    [LogFileAndLine |-> TRUE,
     FatalPanics |-> TRUE,
     JSON |-> TRUE,
     NoTimestamp |-> FALSE,
     ConsoleColor |-> TRUE,
     ForceColor |-> FALSE,
     GoroutineID |-> TRUE,
     CombineRequestAndResponse |-> FALSE,
     Level |-> ""]

\* DefaultConfig()
DefaultConfig ==
    [LogFileAndLine |-> TRUE,
     FatalPanics |-> TRUE,
     JSON |-> TRUE,
     NoTimestamp |-> FALSE,
     ConsoleColor |-> TRUE,
     ForceColor |-> FALSE,
     GoroutineID |-> TRUE,
     CombineRequestAndResponse |-> TRUE,
     Level |-> ""]

\* The fields SetDefaultsForClientTools assigns.
ClientToolsConfig(cfg) ==
    [cfg EXCEPT !.LogFileAndLine = FALSE,
                !.FatalPanics = FALSE,
                !.ConsoleColor = TRUE,
                !.JSON = FALSE,
                !.GoroutineID = FALSE,
                !.CombineRequestAndResponse = FALSE]

\* ConsoleLogging(): the sink is a character device.
ConsoleLogging(isConsole) == isConsole

\* ColorMode()
ColorMode(cfg, isConsole) ==
    cfg.ForceColor \/ (cfg.ConsoleColor /\ ConsoleLogging(isConsole))

\* ANSIColors; ESC stands for the escape character.
ANSIColors ==
    [Reset |-> "ESC[0m", Red |-> "ESC[31m", Green |-> "ESC[32m", Yellow |-> "ESC[33m",
     Blue |-> "ESC[34m", Purple |-> "ESC[35m", Cyan |-> "ESC[36m", Gray |-> "ESC[37m",
     White |-> "ESC[97m", BrightRed |-> "ESC[91m", DarkGray |-> "ESC[90m"]

\* color{}
NoColors == [k \in DOMAIN ANSIColors |-> ""]

\* The mapping of the levels to the entries of the palette cols.
LevelColors(cols) ==
    <<cols.Gray, cols.Cyan, cols.Green, cols.Yellow, cols.Red, cols.Purple,
      cols.BrightRed, cols.Green>>

\* A faulty variant of SetColorModeVars: the level mapping is taken from
\* ANSIColors, not from Colors.
SetColorModeVars_ansiLevels(cfg, isConsole) ==
    LET c == ColorMode(cfg, isConsole)
    IN  [Color |-> c,
         Colors |-> IF c THEN ANSIColors ELSE NoColors,
         LevelToColor |-> LevelColors(ANSIColors)]

\* SetColorMode(): the values it gives Color, Colors and LevelToColor.
SetColorModeVars(cfg, isConsole) ==
    LET c == ColorMode(cfg, isConsole)
        cols == IF c THEN ANSIColors ELSE NoColors
    IN  [Color |-> c, Colors |-> cols, LevelToColor |-> LevelColors(cols)]

\* The engine state the render functions read.
Engine == [level |-> levelInternal, cfg |-> Config, color |-> Color, std |-> stdOut]

\* The standard logger writes to the sink (log.SetOutput(w), or stderr).
StdToSink == [kind |-> "sink", level |-> NoLevel]

-----------------------------------------------------------------------------
(* Records and how they are rendered *)

NoRec == [mode |-> "none", level |-> -1, tag |-> "", fields |-> <<>>]

\* One thing a call does that the application can observe.
WriteEv(rec) == [ev |-> "write", rec |-> rec, code |-> 0]
ExitEv(code) == [ev |-> "exit", rec |-> NoRec, code |-> code]
PanicEv == [ev |-> "panic", rec |-> NoRec, code |-> 0]
\* setLevel(lvl): from here on Log() sees the threshold lvl.
StoreEv(lvl) == [ev |-> "store", rec |-> NoRec, code |-> lvl]

\* A faulty variant of Log: the threshold itself is not logged.
Log_strict(e, lvl) == lvl > e.level

\* Log(lvl): is the level currently logged.
Log(e, lvl) == lvl >= e.level

\* jsonTimestamp(): the "ts" key unless timestamps are suppressed.
jsonTimestamp(cfg) == IF cfg.NoTimestamp THEN <<>> ELSE <<"ts">>

\* jsonGID(): the "r" key if the goroutine id is enabled.
jsonGID(cfg) == IF ~cfg.GoroutineID THEN <<>> ELSE <<"r">>

\* colorTimestamp()
colorTimestamp(cfg) == IF cfg.NoTimestamp THEN <<>> ELSE <<"ts">>

\* colorGID()
colorGID(cfg) == IF ~cfg.GoroutineID THEN <<>> ELSE <<"r">>

\* "[" + LevelToStrA[lvl][0:1] + "]", empty for NoLevel.
lvl1Char(lvl) ==
    IF lvl = NoLevel THEN ""
    ELSE <<"[D]", "[V]", "[I]", "[W]", "[E]", "[C]", "[F]">>[lvl + 1]

\* logSimpleJSON: the fast path, formatted in the shared buffer of jWriter.
logSimpleJSON(lvl) ==
    [via |-> "jWriter", fast |-> TRUE,
     rec |-> [mode |-> "json", level |-> lvl, tag |-> LevelToJSON[lvl + 1],
              fields |-> <<"ts", "level", "msg">>]]

\* logUnconditionalf: renders one record and hands it to jsonWrite or log.Print.
logUnconditionalf(e, logFileAndLine, lvl) ==
    LET loc == IF logFileAndLine THEN <<"file", "line">> ELSE <<>>
        prefix == IF lvl = NoLevel THEN <<>> ELSE <<"prefix">>
    IN  IF e.color
        THEN [via |-> "jWriter", fast |-> FALSE,
              rec |-> [mode |-> "color", level |-> lvl, tag |-> LevelToText[lvl + 1],
                       fields |-> colorTimestamp(e.cfg) \o colorGID(e.cfg) \o <<"level">>
                                  \o loc \o prefix \o <<"msg">>]]
        ELSE IF e.cfg.JSON
        THEN [via |-> "jWriter", fast |-> FALSE,
              rec |-> [mode |-> "json", level |-> lvl, tag |-> LevelToJSON[lvl + 1],
                       fields |-> jsonTimestamp(e.cfg) \o <<"level">> \o jsonGID(e.cfg)
                                  \o loc \o <<"msg">>]]
        ELSE [via |-> "std", fast |-> FALSE,
              rec |-> [mode |-> "text", level |-> lvl, tag |-> lvl1Char(lvl),
                       fields |-> (IF lvl # NoLevel THEN <<"level">> ELSE <<>>)
                                  \o loc \o prefix \o <<"msg">>]]

\* logPrintf: the emissions (none or one) of a printf-style call with `rest` arguments.
logPrintf(e, lvl, rest) ==
    IF ~Log(e, lvl) THEN <<>>
    ELSE IF e.cfg.JSON /\ ~e.cfg.LogFileAndLine /\ ~e.color /\ ~e.cfg.NoTimestamp
            /\ ~e.cfg.GoroutineID /\ rest = 0
    THEN <<logSimpleJSON(lvl)>>
    ELSE <<logUnconditionalf(e, e.cfg.LogFileAndLine, lvl)>>

\* s: the emissions (none or one) of a structured call with attributes `attrs`.
s(e, lvl, logFileAndLine, json, attrs) ==
    IF ~Log(e, lvl) THEN <<>>
    ELSE IF e.cfg.JSON /\ ~e.cfg.LogFileAndLine /\ ~e.color /\ ~e.cfg.NoTimestamp
            /\ ~e.cfg.GoroutineID /\ Len(attrs) = 0
    THEN <<logSimpleJSON(lvl)>>
    ELSE
    LET loc == IF logFileAndLine THEN <<"file", "line">> ELSE <<>>
        prefix == IF lvl = NoLevel THEN <<>> ELSE <<"prefix">>
    IN  IF logFileAndLine
        THEN IF e.color
             THEN <<[via |-> "jWriter", fast |-> FALSE,
                     rec |-> [mode |-> "color", level |-> lvl, tag |-> LevelToText[lvl + 1],
                              fields |-> colorTimestamp(e.cfg) \o colorGID(e.cfg)
                                         \o <<"level">> \o loc \o prefix \o <<"msg">> \o attrs]]>>
             ELSE IF json
             THEN <<[via |-> "jWriter", fast |-> FALSE,
                     rec |-> [mode |-> "json", level |-> lvl, tag |-> LevelToJSON[lvl + 1],
                              fields |-> jsonTimestamp(e.cfg) \o <<"level">> \o jsonGID(e.cfg)
                                         \o loc \o <<"msg">> \o attrs]]>>
             ELSE <<[via |-> "std", fast |-> FALSE,
                     rec |-> [mode |-> "text", level |-> lvl, tag |-> lvl1Char(lvl),
                              fields |-> (IF lvl # NoLevel THEN <<"level">> ELSE <<>>)
                                         \o loc \o prefix \o <<"msg">> \o attrs]]>>
        ELSE IF e.color
             THEN <<[via |-> "jWriter", fast |-> FALSE,
                     rec |-> [mode |-> "color", level |-> lvl, tag |-> LevelToText[lvl + 1],
                              fields |-> colorTimestamp(e.cfg) \o colorGID(e.cfg)
                                         \o <<"level">> \o prefix \o <<"msg">> \o attrs]]>>
             ELSE IF json
             THEN <<[via |-> "jWriter", fast |-> FALSE,
                     rec |-> [mode |-> "json", level |-> lvl, tag |-> LevelToJSON[lvl + 1],
                              fields |-> jsonTimestamp(e.cfg) \o <<"level">>
                                         \o <<"msg">> \o attrs]]>>
             ELSE <<[via |-> "std", fast |-> FALSE,
                     rec |-> [mode |-> "text", level |-> lvl, tag |-> lvl1Char(lvl),
                              fields |-> (IF lvl # NoLevel THEN <<"level">> ELSE <<>>)
                                         \o prefix \o <<"msg">> \o attrs]]>>

\* A faulty variant of logWriter.Write: forcing JSON also switches color off.
logWriterWrite_noColor(e, level) ==
    s([e EXCEPT !.color = FALSE], level, FALSE, TRUE, <<"src">>)

\* logWriter.Write: the adapter logs the line through s with JSON forced.
logWriterWrite(e, level) == s(e, level, FALSE, TRUE, <<"src">>)

\* The sink writes one emission leads to: jsonWrite writes it; log.Print writes it
\* to the output of the standard logger, which is the sink or the adapter.
RECURSIVE Output(_, _)
Output(e, em) ==
    IF em.via = "jWriter" \/ e.std.kind = "sink"
    THEN <<WriteEv(em.rec)>>
    ELSE LET inner == logWriterWrite(e, e.std.level)
         IN  IF inner = <<>> THEN <<>> ELSE Output(e, inner[1])

\* The sink writes of a sequence of emissions, in order.
RECURSIVE Outputs(_, _)
Outputs(e, ems) ==
    IF ems = <<>> THEN <<>> ELSE Output(e, Head(ems)) \o Outputs(e, Tail(ems))

-----------------------------------------------------------------------------
(* HTTP logging.  A request is modelled by the names in r.Header, each with a *)
(* non-empty value, and by whether r.TLS is set (without peer certificate).   *)

\* The header names of the model in the order sort.Strings puts them.
HeaderOrder ==
    <<"Accept", "User-Agent", "X-Forwarded-For", "X-Forwarded-Host", "X-Forwarded-Proto">>

NoRequest == [headers |-> {}, tls |-> FALSE]

Requests ==
    {NoRequest,
     [headers |-> {"User-Agent"}, tls |-> FALSE],
     [headers |-> {"Accept", "User-Agent"}, tls |-> TRUE],
     [headers |-> {"Accept", "X-Forwarded-For", "X-Forwarded-Proto"}, tls |-> FALSE]}

\* extraAttributes of the callers.
ExtraAttrs == {<<>>, <<"trace">>}

\* AddIfNotEmpty: `present` stands for value != "".
AddIfNotEmpty(attrs, key, present) == IF present THEN Append(attrs, key) ELSE attrs

\* AppendTLSInfoAttrs
AppendTLSInfoAttrs(attrs, r) == IF ~r.tls THEN attrs ELSE Append(attrs, "tls")

\* The attribute key of a header in the verbose dump.
HeaderKey(name) ==
    LET nl == ToLower(name)
    IN  IF nl # "user-agent" THEN "header." \o nl ELSE nl

\* A faulty variant of LogRequest: the headers are dumped at every threshold.
LogRequest_allHeaders(e, r, extraAttributes) ==
    IF ~Log(e, Info) THEN <<>>
    ELSE
    LET attr0 == <<"method", "url", "host", "proto", "remote_addr">>
        attr1 == AppendTLSInfoAttrs(attr0, r) \o extraAttributes
        keys == SelectSeq(HeaderOrder, LAMBDA name : name \in r.headers)
    IN  s(e, Info, FALSE, e.cfg.JSON,
          attr1 \o [i \in 1..Len(keys) |-> HeaderKey(keys[i])])

\* LogRequest: the emissions (none or one) of logging the request r.
LogRequest(e, r, extraAttributes) ==
    IF ~Log(e, Info) THEN <<>>
    ELSE
    LET attr0 == <<"method", "url", "host", "proto", "remote_addr">>
        attr1 ==
            IF ~Log(e, Verbose)
            THEN AddIfNotEmpty(
                   AddIfNotEmpty(
                     AddIfNotEmpty(
                       AddIfNotEmpty(attr0, "user-agent", "User-Agent" \in r.headers),
                       "header.x-forwarded-proto", "X-Forwarded-Proto" \in r.headers),
                     "header.x-forwarded-for", "X-Forwarded-For" \in r.headers),
                   "header.x-forwarded-host", "X-Forwarded-Host" \in r.headers)
            ELSE attr0
        attr2 == AppendTLSInfoAttrs(attr1, r) \o extraAttributes
        keys == SelectSeq(HeaderOrder, LAMBDA name : name \in r.headers)
        attr3 ==
            IF Log(e, Verbose)
            THEN attr2 \o [i \in 1..Len(keys) |-> HeaderKey(keys[i])]
            ELSE attr2
    IN  s(e, Info, FALSE, e.cfg.JSON, attr3)

\* LogResponse: the emissions (none or one) of logging status and size.
LogResponse(e, extraAttributes) ==
    IF ~Log(e, Info) THEN <<>>
    ELSE s(e, Info, FALSE, e.cfg.JSON, <<"status", "size">> \o extraAttributes)

\* &ResponseRecorder{w: w, startTime: time.Now()}
NewRecorder == [StatusCode |-> 0, ContentLength |-> 0]

StatusOK == 200

StatusInternalServerError == 500

\* A faulty variant of ResponseRecorder.Write: a failed write sets the status
\* only where a successful one would.
rrWrite_keepsCode(rec, size, err) ==
    [rec EXCEPT !.ContentLength = @ + size,
                !.StatusCode = IF @ # 0 THEN @
                               ELSE IF err THEN StatusInternalServerError ELSE StatusOK]

\* ResponseRecorder.Write, the underlying writer having returned (size, err).
rrWrite(rec, size, err) ==
    [rec EXCEPT !.ContentLength = @ + size,
                !.StatusCode = IF err THEN StatusInternalServerError
                               ELSE IF @ = 0 THEN StatusOK ELSE @]

\* ResponseRecorder.WriteHeader
rrWriteHeader(rec, code) == [rec EXCEPT !.StatusCode = code]

\* The calls a handler makes on its response writer.
WriteCall(size, err) == [call |-> "Write", size |-> size, err |-> err, code |-> 0]
WriteHeaderCall(code) == [call |-> "WriteHeader", size |-> 0, err |-> FALSE, code |-> code]

\* One call on the recorder.
rrCall(rec, c) ==
    IF c.call = "Write" THEN rrWrite(rec, c.size, c.err) ELSE rrWriteHeader(rec, c.code)

\* handlerFunc(respRec, r): the recorder after the calls of the handler.
RECURSIVE handlerFunc(_, _)
handlerFunc(rec, calls) ==
    IF calls = <<>> THEN rec ELSE handlerFunc(rrCall(rec, Head(calls)), Tail(calls))

\* The handler ran; code 1: it panicked.
HandlerEv(panics) == [ev |-> "handler", rec |-> NoRec, code |-> IF panics THEN 1 ELSE 0]

\* A faulty variant of LogAndCall: in the combined mode the request is logged
\* before the handler as well.
LogAndCall_requestFirst(e, r, calls, panics, extraAttributes) ==
    IF e.cfg.CombineRequestAndResponse
    THEN Outputs(e, LogRequest(e, r, extraAttributes))
         \o <<HandlerEv(panics)>>
         \o (IF panics
             THEN Outputs(e, s(e, Critical, FALSE, e.cfg.JSON, <<"error">>))
                  \o (IF Log(e, Verbose)
                      THEN Outputs(e, s(e, Verbose, FALSE, e.cfg.JSON, <<"stack">>))
                      ELSE <<>>)
             ELSE <<>>)
         \o Outputs(e, LogRequest(e, r, <<"status", "size", "microsec">>
                                        \o extraAttributes))
    ELSE Outputs(e, LogRequest(e, r, extraAttributes))
         \o <<HandlerEv(panics)>>
         \o (IF panics THEN <<PanicEv>>
             ELSE Outputs(e, LogResponse(e, <<"microsec">>)))

\* A faulty variant of LogAndCall: the combined mode has no recover().
LogAndCall_noRecover(e, r, calls, panics, extraAttributes) ==
    IF e.cfg.CombineRequestAndResponse
    THEN <<HandlerEv(panics)>>
         \o Outputs(e, LogRequest(e, r, <<"status", "size", "microsec">>
                                        \o extraAttributes))
         \o (IF panics THEN <<PanicEv>> ELSE <<>>)
    ELSE Outputs(e, LogRequest(e, r, extraAttributes))
         \o <<HandlerEv(panics)>>
         \o (IF panics THEN <<PanicEv>>
             ELSE Outputs(e, LogResponse(e, <<"microsec">>)))

\* The handler wrapped by LogAndCall serving r: what happens, in order.
LogAndCall(e, r, calls, panics, extraAttributes) ==
    IF e.cfg.CombineRequestAndResponse
    THEN <<HandlerEv(panics)>>
         \o (IF panics
             THEN Outputs(e, s(e, Critical, FALSE, e.cfg.JSON, <<"error">>))
                  \o (IF Log(e, Verbose)
                      THEN Outputs(e, s(e, Verbose, FALSE, e.cfg.JSON, <<"stack">>))
                      ELSE <<>>)
             ELSE <<>>)
         \o Outputs(e, LogRequest(e, r, <<"status", "size", "microsec">>
                                        \o extraAttributes))
    ELSE Outputs(e, LogRequest(e, r, extraAttributes))
         \o <<HandlerEv(panics)>>
         \o (IF panics THEN <<PanicEv>>
             ELSE Outputs(e, LogResponse(e, <<"microsec">>)))

-----------------------------------------------------------------------------
(* The level registry *)

\* A faulty variant of setLogLevel: the upper range check is against Fatal.
setLogLevel_allowFatal(e, lvl, logChange) ==
    LET prev == e.level
    IN  IF lvl < Debug \/ lvl > Fatal
        THEN [level |-> e.level, cfg |-> e.cfg, ret |-> -1,
              ems |-> <<logUnconditionalf(e, e.cfg.LogFileAndLine, Error)>>]
        ELSE IF lvl # prev
        THEN [level |-> lvl, cfg |-> [e.cfg EXCEPT !.Level = LevelString(lvl)], ret |-> prev,
              ems |-> IF logChange /\ Log(e, Info)
                      THEN <<logUnconditionalf(e, e.cfg.LogFileAndLine, Info)>>
                      ELSE <<>>]
        ELSE [level |-> e.level, cfg |-> e.cfg, ret |-> prev, ems |-> <<>>]

\* A faulty variant of setLogLevel: the rejection is logged through the level gate
\* (as Errf would) and the quiet variant does not log it.
setLogLevel_gatedError(e, lvl, logChange) ==
    LET prev == e.level
    IN  IF lvl < Debug \/ lvl > Critical
        THEN [level |-> e.level, cfg |-> e.cfg, ret |-> -1,
              ems |-> IF logChange THEN logPrintf(e, Error, 1) ELSE <<>>]
        ELSE IF lvl # prev
        THEN [level |-> lvl, cfg |-> [e.cfg EXCEPT !.Level = LevelString(lvl)], ret |-> prev,
              ems |-> IF logChange /\ Log(e, Info)
                      THEN <<logUnconditionalf(e, e.cfg.LogFileAndLine, Info)>>
                      ELSE <<>>]
        ELSE [level |-> e.level, cfg |-> e.cfg, ret |-> prev, ems |-> <<>>]

\* A faulty variant of setLogLevel: the change is announced if the new level
\* logs Info.
setLogLevel_gateNew(e, lvl, logChange) ==
    LET prev == e.level
    IN  IF lvl < Debug \/ lvl > Critical
        THEN [level |-> e.level, cfg |-> e.cfg, ret |-> -1,
              ems |-> <<logUnconditionalf(e, e.cfg.LogFileAndLine, Error)>>]
        ELSE IF lvl # prev
        THEN [level |-> lvl, cfg |-> [e.cfg EXCEPT !.Level = LevelString(lvl)], ret |-> prev,
              ems |-> IF logChange /\ Log([e EXCEPT !.level = lvl], Info)
                      THEN <<logUnconditionalf(e, e.cfg.LogFileAndLine, Info)>>
                      ELSE <<>>]
        ELSE [level |-> e.level, cfg |-> e.cfg, ret |-> prev, ems |-> <<>>]

\* setLogLevel: the new threshold and Config, what is logged, and the value returned.
setLogLevel(e, lvl, logChange) ==
    LET prev == e.level
    IN  IF lvl < Debug
        THEN [level |-> e.level, cfg |-> e.cfg, ret |-> -1,
              ems |-> <<logUnconditionalf(e, e.cfg.LogFileAndLine, Error)>>]
        ELSE IF lvl > Critical
        THEN [level |-> e.level, cfg |-> e.cfg, ret |-> -1,
              ems |-> <<logUnconditionalf(e, e.cfg.LogFileAndLine, Error)>>]
        ELSE IF lvl # prev
        THEN [level |-> lvl, cfg |-> [e.cfg EXCEPT !.Level = LevelString(lvl)], ret |-> prev,
              ems |-> IF logChange /\ Log(e, Info)
                      THEN <<logUnconditionalf(e, e.cfg.LogFileAndLine, Info)>>
                      ELSE <<>>]
        ELSE [level |-> e.level, cfg |-> e.cfg, ret |-> prev, ems |-> <<>>]

\* configFromEnv, after struct2env.SetFromEnv has put the environment into e.cfg.
configFromEnv(e, prev) ==
    IF e.cfg.Level # "" /\ e.cfg.Level # prev
    THEN LET v == ValidateLevel(e.cfg.Level)
         IN  IF v.err
             THEN [level |-> e.level, cfg |-> e.cfg, ems |-> logPrintf(e, Error, 2)]
             ELSE LET r == setLogLevel(e, v.lvl, FALSE)
                      e2 == [e EXCEPT !.level = r.level, !.cfg = r.cfg]
                  IN  [level |-> r.level,
                       cfg |-> [r.cfg EXCEPT !.Level = LevelString(r.level)],
                       ems |-> r.ems \o logPrintf(e2, Info, 3)]
    ELSE [level |-> e.level, cfg |-> [e.cfg EXCEPT !.Level = LevelString(e.level)],
          ems |-> <<>>]

-----------------------------------------------------------------------------
(* The application calling the engine, one call after the other *)

\* Largest number of arguments after the format string of a printf-style call.
MaxArgs == 1

NumArgs == 0..MaxArgs

\* Attribute keys of a structured call.
AttrLists == {<<>>, <<"a">>, <<"a", "b", "a">>}

\* Configurations the environment (LOGGER_* variables) can give at start.
EnvConfigs ==
    {[DefaultConfig EXCEPT !.LogFileAndLine = f[1], !.FatalPanics = f[2], !.JSON = f[3],
                           !.NoTimestamp = f[4], !.ConsoleColor = f[5], !.ForceColor = f[6],
                           !.GoroutineID = f[7], !.CombineRequestAndResponse = f[8],
                           !.Level = l] :
        f \in [1..8 -> BOOLEAN], l \in EnvLevels}

NoCall == [op |-> "none", lvl |-> 0, str |-> "", attrs |-> <<>>, ret |-> 0, err |-> FALSE,
           t0 |-> 0, c0 |-> "", req |-> NoRequest, calls |-> <<>>, panics |-> FALSE,
           status |-> 0, size |-> 0, frame |-> "none"]

NoGoroutines == <<>>

\* Nothing has been handed to Write on the sink; jWriter as it is constructed.
NoWrite == [by |-> 0, lvl |-> 0, msg |-> "", t |-> 0, bytes |-> <<>>]
NoJWriter == [buf |-> <<>>, tsBuf |-> <<>>, now |-> 0, calls |-> 0, count |-> 0,
              out |-> NoWrite]

\* No recorder is under observation; no health server runs.
NoRecorder == [rec |-> NewRecorder, calls |-> <<>>]
NoServer == [run |-> FALSE]

concVars == <<gs, jMutex, stdMutex, inWrite>>

\* The argument of runtime.Caller in logUnconditionalf and in s.
logUnconditionalfSkip == 3
sSkip == 2

\* The functions on the stack when an entry point gets to the function that
\* captures file and line, the application's function ("app") first.
CallChain(op) ==
    CASE op \in {"Debugf", "LogVf", "Infof", "Warnf", "Errf", "Critf", "Logf", "Fatalf",
                 "FErrf"} ->
            <<"app", op, "logPrintf", "logUnconditionalf">>
      [] op = "Logger.Printf" -> <<"app", "loggerShm.Printf", "logPrintf", "logUnconditionalf">>
      [] op = "Printf" -> <<"app", "Printf", "logUnconditionalf">>
      [] op = "S" -> <<"app", "S", "s">>
      [] op \in {"SetLogLevel", "SetLogLevelQuiet"} ->
            <<"app", op, "setLogLevel", "logUnconditionalf">>
      [] op = "SetLogLevelStr" ->
            <<"app", "SetLogLevelStr", "SetLogLevel", "setLogLevel", "logUnconditionalf">>
      [] op = "flag.Set" ->
            <<"app", "flagValidation.Set", "SetLogLevel", "setLogLevel", "logUnconditionalf">>
      [] OTHER -> <<"app", op>>

\* runtime.Caller(skip) called by the last function of the chain.
Caller(chain, skip) == IF skip < Len(chain) THEN chain[Len(chain) - skip] ELSE "runtime"

\* The function whose file and line the call reports ("none": it wrote no record
\* with file and line).
ReportedFrame(op, evs) ==
    IF \E i \in 1..Len(evs) :
          /\ evs[i].ev = "write"
          /\ \E j \in 1..Len(evs[i].rec.fields) : evs[i].rec.fields[j] = "file"
    THEN LET chain == CallChain(op)
         IN  Caller(chain, IF chain[Len(chain)] = "s" THEN sSkip ELSE logUnconditionalfSkip)
    ELSE "none"

\* The call has returned: its arguments, its results and the state it started in.
Returned(op, lvl, str, attrs, ret, err, evs) ==
    /\ last' = [NoCall EXCEPT !.op = op, !.lvl = lvl, !.str = str, !.attrs = attrs,
                              !.ret = ret, !.err = err, !.t0 = levelInternal,
                              !.c0 = Config.Level, !.frame = ReportedFrame(op, evs)]
    /\ events' = evs

\* init(): Info, then the environment, then the color mode.
Init ==
    /\ console \in BOOLEAN
    /\ stdOut = StdToSink
    /\ \E cfg \in EnvConfigs :
         LET e0 == [level |-> Info, cfg |-> cfg, color |-> FALSE, std |-> StdToSink]
             r == configFromEnv(e0, DefaultConfig.Level)
         IN  /\ levelInternal = r.level
             /\ Config = r.cfg
             /\ Color = SetColorModeVars(r.cfg, console).Color
             /\ Colors = SetColorModeVars(r.cfg, console).Colors
             /\ LevelToColor = SetColorModeVars(r.cfg, console).LevelToColor
             /\ events = Outputs(e0, r.ems)
             /\ last = [NoCall EXCEPT !.op = "init", !.str = cfg.Level, !.t0 = Info]
    /\ gs = NoGoroutines
    /\ jMutex = 0
    /\ stdMutex = 0
    /\ inWrite = {}
    /\ rr = NoRecorder
    /\ hc = NoServer
    /\ jw = NoJWriter

\* The application is between two calls.
Idle == last.op = "none"

\* The application takes note of the result and goes on.
Return ==
    /\ ~Idle
    /\ last' = NoCall
    /\ events' = <<>>
    /\ UNCHANGED <<levelInternal, Config, Color, Colors, LevelToColor, console,
                    stdOut, concVars, otherVars>>

\* A printf-style leveled call.
PrintfCall(op, lvl, ret, after) ==
    /\ Idle
    /\ \E rest \in NumArgs :
         Returned(op, lvl, "", <<>>, ret, FALSE,
                  Outputs(Engine, logPrintf(Engine, lvl, rest)) \o after)
    /\ UNCHANGED <<levelInternal, Config, Color, Colors, LevelToColor, console,
                    stdOut, concVars, otherVars>>

Debugf == PrintfCall("Debugf", Debug, 0, <<>>)

LogVf == PrintfCall("LogVf", Verbose, 0, <<>>)

Infof == PrintfCall("Infof", Info, 0, <<>>)

Warnf == PrintfCall("Warnf", Warning, 0, <<>>)

Errf == PrintfCall("Errf", Error, 0, <<>>)

Critf == PrintfCall("Critf", Critical, 0, <<>>)

Logf == \E lvl \in Levels : PrintfCall("Logf", lvl, 0, <<>>)

\* A faulty variant of Fatalf: FatalPanics is not looked at.
Fatalf_noPanic == PrintfCall("Fatalf", Fatal, 0, <<ExitEv(1)>>)

\* Fatalf: logs, then panics or calls Config.FatalExit(1).
Fatalf ==
    PrintfCall("Fatalf", Fatal, 0,
               IF Config.FatalPanics THEN <<PanicEv>> ELSE <<ExitEv(1)>>)

\* A faulty variant of FErrf: it ends the way Fatalf does.
FErrf_fatal ==
    PrintfCall("FErrf", Fatal, 1,
               IF Config.FatalPanics THEN <<PanicEv>> ELSE <<ExitEv(1)>>)

FErrf == PrintfCall("FErrf", Fatal, 1, <<>>)

\* Logger().Printf
LoggerPrintf == PrintfCall("Logger.Printf", Info, 0, <<>>)

\* A faulty variant of Printf: file and line follow Config.LogFileAndLine.
Printf_fileLine ==
    /\ Idle
    /\ Returned("Printf", NoLevel, "", <<>>, 0, FALSE,
                Outputs(Engine, <<logUnconditionalf(Engine, Config.LogFileAndLine, NoLevel)>>))
    /\ UNCHANGED <<levelInternal, Config, Color, Colors, LevelToColor, console,
                    stdOut, concVars, otherVars>>

Printf ==
    /\ Idle
    /\ Returned("Printf", NoLevel, "", <<>>, 0, FALSE,
                Outputs(Engine, <<logUnconditionalf(Engine, FALSE, NoLevel)>>))
    /\ UNCHANGED <<levelInternal, Config, Color, Colors, LevelToColor, console,
                    stdOut, concVars, otherVars>>

\* The attributes with every key kept once, at its first place.
RECURSIVE DistinctKeys(_)
DistinctKeys(attrs) ==
    IF attrs = <<>> THEN <<>>
    ELSE LET init == DistinctKeys(SubSeq(attrs, 1, Len(attrs) - 1))
             key == attrs[Len(attrs)]
         IN  IF \E i \in 1..Len(init) : init[i] = key THEN init ELSE Append(init, key)

\* A faulty variant of S: an attribute whose key came before is dropped.
S_distinctKeys ==
    /\ Idle
    /\ \E lvl \in Levels, attrs \in AttrLists :
         Returned("S", lvl, "", attrs, 0, FALSE,
                  Outputs(Engine, s(Engine, lvl, Config.LogFileAndLine, Config.JSON,
                                    DistinctKeys(attrs))))
    /\ UNCHANGED <<levelInternal, Config, Color, Colors, LevelToColor, console,
                    stdOut, concVars, otherVars>>

S ==
    /\ Idle
    /\ \E lvl \in Levels, attrs \in AttrLists :
         Returned("S", lvl, "", attrs, 0, FALSE,
                  Outputs(Engine, s(Engine, lvl, Config.LogFileAndLine, Config.JSON, attrs)))
    /\ UNCHANGED <<levelInternal, Config, Color, Colors, LevelToColor, console,
                    stdOut, concVars, otherVars>>

\* Print on a logger made by NewStdLogger(source, level).
StdLoggerPrint ==
    /\ Idle
    /\ \E level \in Levels :
         Returned("NewStdLogger.Print", level, "", <<"src">>, 0, FALSE,
                  Outputs(Engine, logWriterWrite(Engine, level)))
    /\ UNCHANGED <<levelInternal, Config, Color, Colors, LevelToColor, console,
                    stdOut, concVars, otherVars>>

\* SetLogLevel / SetLogLevelQuiet with any int32 around the enumeration.
SetLevelCall(op, lvl, logChange, str, err) ==
    LET r == setLogLevel(Engine, lvl, logChange)
    IN  /\ Returned(op, lvl, str, <<>>, r.ret, err,
                    Outputs(Engine, r.ems)
                    \o (IF r.level # levelInternal THEN <<StoreEv(r.level)>> ELSE <<>>))
        /\ levelInternal' = r.level
        /\ Config' = r.cfg
        /\ UNCHANGED <<Color, Colors, LevelToColor, console,
                    stdOut, concVars, otherVars>>

SetLogLevel == Idle /\ \E lvl \in LevelArgs : SetLevelCall("SetLogLevel", lvl, TRUE, "", FALSE)

SetLogLevelQuiet ==
    Idle /\ \E lvl \in LevelArgs : SetLevelCall("SetLogLevelQuiet", lvl, FALSE, "", FALSE)

\* ValidateLevel called by the application.
ValidateLevelCall ==
    /\ Idle
    /\ \E str \in LevelStrings :
         LET v == ValidateLevel(str)
         IN  Returned("ValidateLevel", v.lvl, str, <<>>, v.lvl, v.err, <<>>)
    /\ UNCHANGED <<levelInternal, Config, Color, Colors, LevelToColor, console,
                    stdOut, concVars, otherVars>>

\* A faulty variant of SetLevelByName: the error of ValidateLevel does not end
\* the call, the level it returned is passed on to SetLogLevel.
SetLevelByName_noReturn(op, inp, str) ==
    LET v == ValidateLevel(str)
    IN  SetLevelCall(op, v.lvl, TRUE, inp, v.err)

\* A call that validates a level name and then calls SetLogLevel.
SetLevelByName(op, inp, str) ==
    LET v == ValidateLevel(str)
    IN  IF v.err
        THEN /\ Returned(op, v.lvl, inp, <<>>, 0, TRUE, <<>>)
             /\ UNCHANGED <<levelInternal, Config, Color, Colors, LevelToColor, console,
                    stdOut, concVars, otherVars>>
        ELSE SetLevelCall(op, v.lvl, TRUE, inp, FALSE)

SetLogLevelStr == Idle /\ \E str \in LevelStrings : SetLevelByName("SetLogLevelStr", str, str)

\* flagValidation.Set
FlagSet ==
    Idle /\ \E inp \in LevelStrings : SetLevelByName("flag.Set", inp, ToLower(TrimSpace(inp)))

SetColorMode ==
    /\ Idle
    /\ Color' = SetColorModeVars(Config, console).Color
    /\ Colors' = SetColorModeVars(Config, console).Colors
    /\ LevelToColor' = SetColorModeVars(Config, console).LevelToColor
    /\ Returned("SetColorMode", 0, "", <<>>, 0, FALSE, <<>>)
    /\ UNCHANGED <<levelInternal, Config, console, stdOut, concVars, otherVars>>

\* SetOutput(w): w is a terminal or not; the standard logger writes to w too.
SetOutput ==
    /\ Idle
    /\ \E isConsole \in BOOLEAN :
         /\ console' = isConsole
         /\ stdOut' = StdToSink
         /\ Color' = SetColorModeVars(Config, isConsole).Color
         /\ Colors' = SetColorModeVars(Config, isConsole).Colors
         /\ LevelToColor' = SetColorModeVars(Config, isConsole).LevelToColor
    /\ Returned("SetOutput", 0, "", <<>>, 0, FALSE, <<>>)
    /\ UNCHANGED <<levelInternal, Config, concVars, otherVars>>

SetDefaultsForClientTools ==
    /\ Idle
    /\ Config' = ClientToolsConfig(Config)
    /\ Color' = SetColorModeVars(ClientToolsConfig(Config), console).Color
    /\ Colors' = SetColorModeVars(ClientToolsConfig(Config), console).Colors
    /\ LevelToColor' = SetColorModeVars(ClientToolsConfig(Config), console).LevelToColor
    /\ Returned("SetDefaultsForClientTools", 0, "", <<>>, 0, FALSE, <<>>)
    /\ UNCHANGED <<levelInternal, console, stdOut, concVars, otherVars>>

Next ==
    \/ Return
    \/ Debugf \/ LogVf \/ Infof \/ Warnf \/ Errf \/ Critf \/ Logf
    \/ Fatalf \/ FErrf \/ LoggerPrintf \/ Printf \/ S \/ StdLoggerPrint
    \/ SetLogLevel \/ SetLogLevelQuiet \/ ValidateLevelCall \/ SetLogLevelStr \/ FlagSet
    \/ SetColorMode \/ SetOutput \/ SetDefaultsForClientTools

Spec == Init /\ [][Next]_vars

-----------------------------------------------------------------------------
(* An application that hands the standard logger over to the engine *)

\* The output of the standard logger is logWriter{"std", level}.
StdToAdapter(level) == [kind |-> "logWriter", level |-> level]

\* InterceptStandardLogger(level): log.SetFlags(0); log.SetOutput(logWriter{...}).
InterceptStandardLogger ==
    /\ Idle
    /\ \E level \in Levels :
         /\ stdOut' = StdToAdapter(level)
         /\ Returned("InterceptStandardLogger", level, "", <<>>, 0, FALSE, <<>>)
    /\ UNCHANGED <<levelInternal, Config, Color, Colors, LevelToColor, console,
                    concVars, otherVars>>

NextIntercept ==
    \/ Return
    \/ InterceptStandardLogger
    \/ Errf \/ Printf
    \/ SetLogLevelQuiet \/ SetOutput

SpecIntercept == Init /\ [][NextIntercept]_vars

-----------------------------------------------------------------------------
(* An application that changes the sink and the color settings *)

\* The application assigns Config.ForceColor or Config.ConsoleColor; the cached
\* flag and the palette stay as they are until SetColorMode is called.
AssignConfigColor ==
    /\ Idle
    /\ \E force \in BOOLEAN, cons \in BOOLEAN :
         Config' = [Config EXCEPT !.ForceColor = force, !.ConsoleColor = cons]
    /\ Returned("Config.ForceColor=", 0, "", <<>>, 0, FALSE, <<>>)
    /\ UNCHANGED <<levelInternal, Color, Colors, LevelToColor, console, stdOut, concVars,
                   otherVars>>

NextColor ==
    \/ Return
    \/ AssignConfigColor
    \/ SetColorMode \/ SetOutput \/ SetDefaultsForClientTools

SpecColor == Init /\ [][NextColor]_vars

-----------------------------------------------------------------------------
(* A server calling the HTTP logging functions, one call after the other *)

\* What the handlers of the model do with their response writer.
HandlerCalls ==
    {<<>>,
     <<WriteCall(2, FALSE)>>,
     <<WriteHeaderCall(404), WriteCall(1, FALSE)>>,
     <<WriteCall(1, TRUE), WriteCall(2, FALSE)>>}

\* The HTTP call has returned: its inputs, what the recorder held, what happened.
ReturnedHTTP(op, r, calls, panics, extraAttributes, evs) ==
    /\ last' = [NoCall EXCEPT !.op = op, !.lvl = Info, !.req = r, !.calls = calls,
                              !.panics = panics, !.attrs = extraAttributes,
                              !.status = handlerFunc(NewRecorder, calls).StatusCode,
                              !.size = handlerFunc(NewRecorder, calls).ContentLength,
                              !.t0 = levelInternal, !.c0 = Config.Level]
    /\ events' = evs
    /\ UNCHANGED <<levelInternal, Config, Color, Colors, LevelToColor, console,
                    stdOut, concVars, otherVars>>

LogRequestCall ==
    /\ Idle
    /\ \E r \in Requests, extraAttributes \in ExtraAttrs :
         ReturnedHTTP("LogRequest", r, <<>>, FALSE, extraAttributes,
                      Outputs(Engine, LogRequest(Engine, r, extraAttributes)))

\* LogResponse on a recorder a handler has written to.
LogResponseCall ==
    /\ Idle
    /\ \E calls \in HandlerCalls, extraAttributes \in ExtraAttrs :
         ReturnedHTTP("LogResponse", NoRequest, calls, FALSE, extraAttributes,
                      Outputs(Engine, LogResponse(Engine, extraAttributes)))

\* A request is served by a handler wrapped with LogAndCall.
LogAndCallServe ==
    /\ Idle
    /\ \E r \in Requests, calls \in HandlerCalls, panics \in BOOLEAN,
          extraAttributes \in ExtraAttrs :
         ReturnedHTTP("LogAndCall", r, calls, panics, extraAttributes,
                      LogAndCall(Engine, r, calls, panics, extraAttributes))

NextHTTP ==
    \/ Return
    \/ SetLogLevelQuiet \/ SetDefaultsForClientTools
    \/ LogRequestCall \/ LogResponseCall \/ LogAndCallServe

SpecHTTP == Init /\ [][NextHTTP]_vars

-----------------------------------------------------------------------------
(* A handler using one ResponseRecorder, call after call *)

\* Largest number of calls the handler makes on the recorder.
MaxCalls == 4

\* Largest byte count the underlying writer returns for one Write.
MaxWriteSize == 2

\* Status codes the handler passes to WriteHeader.
HeaderCodes == {StatusOK, 404, StatusInternalServerError}

\* The logging engine at rest, in its default configuration.
EngineAtRest ==
    /\ levelInternal = Info
    /\ Config = [DefaultConfig EXCEPT !.Level = LevelString(Info)]
    /\ Color = FALSE
    /\ Colors = NoColors
    /\ LevelToColor = LevelColors(NoColors)
    /\ console = FALSE
    /\ stdOut = StdToSink
    /\ last = NoCall
    /\ events = <<>>
    /\ gs = NoGoroutines
    /\ jMutex = 0
    /\ stdMutex = 0
    /\ inWrite = {}

logVars ==
    <<levelInternal, Config, Color, Colors, LevelToColor, console, stdOut, last, events,
      concVars>>

InitRecorder ==
    /\ EngineAtRest
    /\ rr = NoRecorder
    /\ hc = NoServer
    /\ jw = NoJWriter

\* rr.Write(p): the underlying writer returns (size, err).
RecorderWrite ==
    /\ Len(rr.calls) < MaxCalls
    /\ \E size \in 0..MaxWriteSize, err \in BOOLEAN :
         rr' = [rec |-> rrWrite(rr.rec, size, err),
                calls |-> Append(rr.calls, WriteCall(size, err))]
    /\ UNCHANGED <<logVars, hc, jw>>

\* rr.WriteHeader(code)
RecorderWriteHeader ==
    /\ Len(rr.calls) < MaxCalls
    /\ \E code \in HeaderCodes :
         rr' = [rec |-> rrWriteHeader(rr.rec, code),
                calls |-> Append(rr.calls, WriteHeaderCall(code))]
    /\ UNCHANGED <<logVars, hc, jw>>

NextRecorder == RecorderWrite \/ RecorderWriteHeader

SpecRecorder == InitRecorder /\ [][NextRecorder]_vars

-----------------------------------------------------------------------------
(* The grpc-health-checking server: the flags it was started with, the time  *)
(* since it started, in ticks, the state of forceUnhealthy (nil, or the      *)
(* value of the bool it points to), the control handler in progress and the  *)
(* last Check answered.                                                      *)

\* Ticks of the clock in one second.
TicksPerSec == 2

\* The clock is observed up to this many ticks after the start.
MaxTicks == 6

\* Values of --delay-unhealthy-sec (-1 is the default).
Delays == {-1, 0, 1, 2}

\* Values of --service, and the service names Check is asked for.
ServiceFlags == {"", "svc"}
ServiceNames == {"", "svc", "other"}

\* ctl: a control endpoint had been called when the Check was answered; forced: a
\* /make-not-serving request had completed and no /make-serving request had been
\* made since.
NoCheck ==
    [made |-> FALSE, service |-> "", at |-> 0, ctl |-> FALSE, forced |-> FALSE,
     result |-> "none"]

NoHandler == [pc |-> "idle", val |-> FALSE]

\* A faulty variant of Check: the delay has to be exceeded, not reached.
Check_exceeded(h, reqService) ==
    IF reqService # h.service THEN "NotFound"
    ELSE IF h.forceUnhealthy = "true"
            \/ (h.delayUnhealthySec >= 0 /\ h.now > h.delayUnhealthySec * TicksPerSec)
    THEN "NOT_SERVING"
    ELSE "SERVING"

\* HealthChecker.Check: the status, or the error code, it answers with.
Check(h, reqService) ==
    IF reqService # h.service THEN "NotFound"
    ELSE IF (h.forceUnhealthy # "nil" /\ h.forceUnhealthy = "true")
            \/ (h.delayUnhealthySec >= 0 /\ h.now >= h.delayUnhealthySec * TicksPerSec)
    THEN "NOT_SERVING"
    ELSE "SERVING"

\* init() and rootmain: the flags are parsed, started := time.Now().
InitHealth ==
    /\ EngineAtRest
    /\ rr = NoRecorder
    /\ jw = NoJWriter
    /\ \E delay \in Delays, service \in ServiceFlags :
         hc = [run |-> TRUE, delayUnhealthySec |-> delay, service |-> service, now |-> 0,
               forceUnhealthy |-> "nil", called |-> FALSE, forced |-> FALSE,
               handler |-> NoHandler, check |-> NoCheck]

\* Time passes.
Tick ==
    /\ hc.now < MaxTicks
    /\ hc' = [hc EXCEPT !.now = @ + 1]
    /\ UNCHANGED <<logVars, rr, jw>>

\* A Check request is answered.
CheckCall ==
    /\ \E reqService \in ServiceNames :
         hc' = [hc EXCEPT !.check = [made |-> TRUE, service |-> reqService, at |-> hc.now,
                                     ctl |-> hc.called, forced |-> hc.forced,
                                     result |-> Check(hc, reqService)]]
    /\ UNCHANGED <<logVars, rr, jw>>

\* /make-not-serving (val TRUE) or /make-serving (val FALSE) is called:
\* forceUnhealthy = new(bool).
ControlBegin ==
    /\ hc.handler.pc = "idle"
    /\ \E val \in BOOLEAN :
         hc' = [hc EXCEPT !.forceUnhealthy = "false", !.called = TRUE,
                          !.forced = IF val THEN @ ELSE FALSE,
                          !.handler = [pc |-> "assign", val |-> val]]
    /\ UNCHANGED <<logVars, rr, jw>>

\* *forceUnhealthy = val, and the handler answers.
ControlAssign ==
    /\ hc.handler.pc = "assign"
    /\ hc' = [hc EXCEPT !.forceUnhealthy = IF hc.handler.val THEN "true" ELSE "false",
                        !.forced = hc.handler.val,
                        !.handler = NoHandler]
    /\ UNCHANGED <<logVars, rr, jw>>

NextHealth == Tick \/ CheckCall \/ ControlBegin \/ ControlAssign

SpecHealth == InitHealth /\ [][NextHealth]_vars

-----------------------------------------------------------------------------
(* Goroutines calling the engine concurrently.  A call is split at its      *)
(* atomic loads and stores of levelInternal, at Lock and Unlock of the two  *)
(* mutexes and at the start and the end of Write on the sink.  Config is    *)
(* set up before the goroutines start.                                      *)

NumGoroutines == 2

Goroutines == 1..NumGoroutines

\* Configurations the concurrent callers run under: server, client tool, forced color.
ConcConfigs ==
    {[DefaultConfig EXCEPT !.Level = "Info"],
     [ClientToolsConfig(DefaultConfig) EXCEPT !.Level = "Info"],
     [DefaultConfig EXCEPT !.ForceColor = TRUE, !.Level = "Info"]}

\* Levels the concurrent callers pass to SetLogLevel: below, above and at the
\* starting threshold, and one that is rejected.
ConcLevelArgs == {Debug, Info, Warning, Fatal}

\* Levels the concurrent callers log at.
ConcLogLevels == {Verbose, Error}

NoEmission == [via |-> "none", fast |-> FALSE, rec |-> NoRec]

\* werr: the last Write of the call on the sink returned an error;
\* writes: how many Writes the call has started.
IdleG ==
    [pc |-> "idle", op |-> "none", lvl |-> 0, logChange |-> FALSE, prev |-> 0, over |-> 0,
     stored |-> FALSE, ret |-> 0, em |-> NoEmission, after |-> "done",
     werr |-> FALSE, writes |-> 0, msg |-> "", t |-> 0, req |-> NoRequest, attrs |-> <<>>]

InitConc ==
    /\ console = FALSE
    /\ stdOut = StdToSink
    /\ levelInternal = Info
    /\ Config \in ConcConfigs
    /\ Color = SetColorModeVars(Config, console).Color
    /\ Colors = SetColorModeVars(Config, console).Colors
    /\ LevelToColor = SetColorModeVars(Config, console).LevelToColor
    /\ last = NoCall
    /\ events = <<>>
    /\ gs = [g \in Goroutines |-> IdleG]
    /\ jMutex = 0
    /\ stdMutex = 0
    /\ inWrite = {}
    /\ rr = NoRecorder
    /\ hc = NoServer
    /\ jw = NoJWriter

seqVars == <<Color, Colors, LevelToColor, console, stdOut, last, events>>

\* A goroutine enters SetLogLevel or SetLogLevelQuiet.
CallSetLogLevel(g) ==
    /\ gs[g].pc = "idle"
    /\ \E lvl \in ConcLevelArgs, logChange \in BOOLEAN :
         gs' = [gs EXCEPT ![g] = [IdleG EXCEPT !.pc = "load", !.op = "setLogLevel",
                                               !.lvl = lvl, !.logChange = logChange]]
    /\ UNCHANGED <<levelInternal, Config, jMutex, stdMutex, inWrite, seqVars, otherVars>>

\* prev := GetLogLevel(), and the range checks on lvl.
LoadPrev(g) ==
    /\ gs[g].pc = "load"
    /\ LET lvl == gs[g].lvl
           prev == levelInternal
       IN  gs' = [gs EXCEPT ![g] =
                IF lvl < Debug \/ lvl > Critical
                THEN [@ EXCEPT !.prev = prev, !.ret = -1, !.pc = "lock", !.after = "done",
                               !.em = logUnconditionalf(Engine, Config.LogFileAndLine, Error)]
                ELSE IF lvl # prev
                THEN [@ EXCEPT !.prev = prev, !.ret = prev,
                               !.pc = IF gs[g].logChange THEN "gateInfo" ELSE "store"]
                ELSE [@ EXCEPT !.prev = prev, !.ret = prev, !.pc = "done"]]
    /\ UNCHANGED <<levelInternal, Config, jMutex, stdMutex, inWrite, seqVars, otherVars>>

\* logChange && Log(Info): a second load of the threshold.
GateInfo(g) ==
    /\ gs[g].pc = "gateInfo"
    /\ gs' = [gs EXCEPT ![g] =
            IF Log(Engine, Info)
            THEN [@ EXCEPT !.pc = "lock", !.after = "store",
                           !.em = logUnconditionalf(Engine, Config.LogFileAndLine, Info)]
            ELSE [@ EXCEPT !.pc = "store"]]
    /\ UNCHANGED <<levelInternal, Config, jMutex, stdMutex, inWrite, seqVars, otherVars>>

\* setLevel(lvl), Config.Level = lvl.String(), return prev.
StoreLevel(g) ==
    /\ gs[g].pc = "store"
    /\ gs' = [gs EXCEPT ![g] = [@ EXCEPT !.over = levelInternal, !.stored = TRUE,
                                         !.pc = "done"]]
    /\ levelInternal' = gs[g].lvl
    /\ Config' = [Config EXCEPT !.Level = LevelString(gs[g].lvl)]
    /\ UNCHANGED <<jMutex, stdMutex, inWrite, seqVars, otherVars>>

\* A goroutine enters a leveled printf-style call; Log(lvl) loads the threshold.
CallLogf(g) ==
    /\ gs[g].pc = "idle"
    /\ \E lvl \in ConcLogLevels, rest \in NumArgs :
         LET ems == logPrintf(Engine, lvl, rest)
         IN  gs' = [gs EXCEPT ![g] =
                  IF ems = <<>>
                  THEN [IdleG EXCEPT !.pc = "done", !.op = "Logf", !.lvl = lvl]
                  ELSE [IdleG EXCEPT !.pc = "lock", !.op = "Logf", !.lvl = lvl,
                                     !.em = ems[1]]]
    /\ UNCHANGED <<levelInternal, Config, jMutex, stdMutex, inWrite, seqVars, otherVars>>

\* A goroutine prints on a logger made by NewStdLogger(source, level).
CallStdLogger(g) ==
    /\ gs[g].pc = "idle"
    /\ \E level \in ConcLogLevels :
         LET ems == logWriterWrite(Engine, level)
         IN  gs' = [gs EXCEPT ![g] =
                  IF ems = <<>>
                  THEN [IdleG EXCEPT !.pc = "done", !.op = "NewStdLogger.Print", !.lvl = level]
                  ELSE [IdleG EXCEPT !.pc = "lock", !.op = "NewStdLogger.Print",
                                     !.lvl = level, !.em = ems[1]]]
    /\ UNCHANGED <<levelInternal, Config, jMutex, stdMutex, inWrite, seqVars, otherVars>>

\* jWriter.mutex.Lock() in jsonWriteBytes and logSimpleJSON; log.Print locks the
\* mutex of the standard logger.
Lock(g) ==
    /\ gs[g].pc = "lock"
    /\ IF gs[g].em.via = "jWriter"
       THEN jMutex = 0 /\ jMutex' = g /\ UNCHANGED stdMutex
       ELSE stdMutex = 0 /\ stdMutex' = g /\ UNCHANGED jMutex
    /\ gs' = [gs EXCEPT ![g].pc = "write"]
    /\ UNCHANGED <<levelInternal, Config, inWrite, seqVars, otherVars>>

\* Write on the sink starts.
WriteBegin(g) ==
    /\ gs[g].pc = "write"
    /\ inWrite' = inWrite \cup {g}
    /\ gs' = [gs EXCEPT ![g].pc = "writing", ![g].writes = @ + 1]
    /\ UNCHANGED <<levelInternal, Config, jMutex, stdMutex, seqVars, otherVars>>

\* Write on the sink returns, with an error or without: the result is dropped
\* (_, _ = jWriter.w.Write(...); log.Print drops the error of Output).
WriteEnd(g) ==
    /\ gs[g].pc = "writing"
    /\ inWrite' = inWrite \ {g}
    /\ \E err \in BOOLEAN : gs' = [gs EXCEPT ![g].pc = "unlock", ![g].werr = err]
    /\ UNCHANGED <<levelInternal, Config, jMutex, stdMutex, seqVars, otherVars>>

\* A faulty variant of Unlock: a call whose Write failed returns at once, with
\* the mutex still locked.
Unlock_unlessError(g) ==
    /\ gs[g].pc = "unlock"
    /\ IF gs[g].werr
       THEN UNCHANGED <<jMutex, stdMutex>>
       ELSE IF gs[g].em.via = "jWriter"
            THEN jMutex' = 0 /\ UNCHANGED stdMutex
            ELSE stdMutex' = 0 /\ UNCHANGED jMutex
    /\ gs' = [gs EXCEPT ![g].pc = gs[g].after]
    /\ UNCHANGED <<levelInternal, Config, inWrite, seqVars, otherVars>>

\* jWriter.mutex.Unlock(), or the deferred Unlock of the standard logger.
Unlock(g) ==
    /\ gs[g].pc = "unlock"
    /\ IF gs[g].em.via = "jWriter"
       THEN jMutex' = 0 /\ UNCHANGED stdMutex
       ELSE stdMutex' = 0 /\ UNCHANGED jMutex
    /\ gs' = [gs EXCEPT ![g].pc = gs[g].after]
    /\ UNCHANGED <<levelInternal, Config, inWrite, seqVars, otherVars>>

\* The call has returned and the goroutine goes on to its next call.
Finish(g) ==
    /\ gs[g].pc = "done"
    /\ gs' = [gs EXCEPT ![g] = IdleG]
    /\ UNCHANGED <<levelInternal, Config, jMutex, stdMutex, inWrite, seqVars, otherVars>>

NextConc ==
    \E g \in Goroutines :
        \/ CallSetLogLevel(g) \/ LoadPrev(g) \/ GateInfo(g) \/ StoreLevel(g)
        \/ CallLogf(g) \/ CallStdLogger(g)
        \/ Lock(g) \/ WriteBegin(g) \/ WriteEnd(g) \/ Unlock(g) \/ Finish(g)

SpecConc == InitConc /\ [][NextConc]_vars

\* The goroutines only log; the sink may fail any Write.
NextConcLog ==
    \E g \in Goroutines :
        \/ CallLogf(g) \/ CallStdLogger(g)
        \/ Lock(g) \/ WriteBegin(g) \/ WriteEnd(g) \/ Unlock(g) \/ Finish(g)

SpecConcLog == InitConc /\ [][NextConcLog]_vars

-----------------------------------------------------------------------------
(* The JSON fast path, statement by statement: goroutines that log with no   *)
(* format arguments under a configuration that selects logSimpleJSON.        *)

\* Largest number of calls the goroutines make in all.
MaxFastCalls == 3

\* Messages the goroutines log.
FastMsgs == {"m1", "m2"}

\* JSON, timestamps, no file and line, no goroutine id, no color.
FastConfig ==
    [DefaultConfig EXCEPT !.LogFileAndLine = FALSE, !.GoroutineID = FALSE, !.Level = "Info"]

\* strconv.AppendFloat(b, t, 'f', 6, 64) for a time of t whole seconds.
AppendFloat(b, t) == Append(b, ToString(t) \o ".000000")

\* fmt's %q of a message without special characters.
Quoted(msg) == "\"" \o msg \o "\""

InitFast ==
    /\ console = FALSE
    /\ stdOut = StdToSink
    /\ levelInternal = Info
    /\ Config = FastConfig
    /\ Color = SetColorModeVars(Config, console).Color
    /\ Colors = SetColorModeVars(Config, console).Colors
    /\ LevelToColor = SetColorModeVars(Config, console).LevelToColor
    /\ last = NoCall
    /\ events = <<>>
    /\ gs = [g \in Goroutines |-> IdleG]
    /\ jMutex = 0
    /\ stdMutex = 0
    /\ inWrite = {}
    /\ rr = NoRecorder
    /\ hc = NoServer
    /\ jw = NoJWriter

fastVars == <<levelInternal, Config, stdMutex, inWrite, seqVars, rr, hc>>

\* A goroutine calls Errf(msg) or LogVf(msg): logPrintf gates the call and
\* takes the fast path.
FastCall(g) ==
    /\ gs[g].pc = "idle"
    /\ jw.calls < MaxFastCalls
    /\ \E lvl \in ConcLogLevels, msg \in FastMsgs :
         LET ems == logPrintf(Engine, lvl, 0)
         IN  gs' = [gs EXCEPT ![g] =
                  IF ems = <<>>
                  THEN [IdleG EXCEPT !.pc = "done", !.op = "Logf", !.lvl = lvl, !.msg = msg]
                  ELSE [IdleG EXCEPT !.pc = IF ems[1].fast THEN "fastlock" ELSE "lock",
                                     !.op = "Logf", !.lvl = lvl, !.msg = msg,
                                     !.em = ems[1]]]
    /\ jw' = [jw EXCEPT !.calls = @ + 1]
    /\ UNCHANGED <<jMutex, fastVars>>

\* A faulty variant of FastLock: the buffers are used without the mutex.
FastLock_noMutex(g) ==
    /\ gs[g].pc = "fastlock"
    /\ gs' = [gs EXCEPT ![g].pc = "reset"]
    /\ UNCHANGED <<jMutex, jw, fastVars>>

\* jWriter.mutex.Lock()
FastLock(g) ==
    /\ gs[g].pc = "fastlock"
    /\ jMutex = 0
    /\ jMutex' = g
    /\ gs' = [gs EXCEPT ![g].pc = "reset"]
    /\ UNCHANGED <<jw, fastVars>>

\* jWriter.buf.Reset()
BufReset(g) ==
    /\ gs[g].pc = "reset"
    /\ jw' = [jw EXCEPT !.buf = <<>>]
    /\ gs' = [gs EXCEPT ![g].pc = "open"]
    /\ UNCHANGED <<jMutex, fastVars>>

\* jWriter.buf.WriteString("{\"ts\":")
BufOpen(g) ==
    /\ gs[g].pc = "open"
    /\ jw' = [jw EXCEPT !.buf = Append(@, "{\"ts\":")]
    /\ gs' = [gs EXCEPT ![g].pc = "now"]
    /\ UNCHANGED <<jMutex, fastVars>>

\* t := TimeToTS(time.Now()); jWriter.tsBuf = jWriter.tsBuf[:0]
TsReset(g) ==
    /\ gs[g].pc = "now"
    /\ jw' = [jw EXCEPT !.tsBuf = <<>>, !.now = @ + 1]
    /\ gs' = [gs EXCEPT ![g].pc = "appendTs", ![g].t = jw.now]
    /\ UNCHANGED <<jMutex, fastVars>>

\* jWriter.tsBuf = strconv.AppendFloat(jWriter.tsBuf, t, 'f', 6, 64)
TsAppend(g) ==
    /\ gs[g].pc = "appendTs"
    /\ jw' = [jw EXCEPT !.tsBuf = AppendFloat(@, gs[g].t)]
    /\ gs' = [gs EXCEPT ![g].pc = "writeTs"]
    /\ UNCHANGED <<jMutex, fastVars>>

\* jWriter.buf.Write(jWriter.tsBuf)
BufWriteTs(g) ==
    /\ gs[g].pc = "writeTs"
    /\ jw' = [jw EXCEPT !.buf = @ \o jw.tsBuf]
    /\ gs' = [gs EXCEPT ![g].pc = "fprintf"]
    /\ UNCHANGED <<jMutex, fastVars>>

\* fmt.Fprintf(&jWriter.buf, ",\"level\":%s,\"msg\":%q}\n", LevelToJSON[lvl], msg)
BufFprintf(g) ==
    /\ gs[g].pc = "fprintf"
    /\ jw' = [jw EXCEPT !.buf = @ \o <<",\"level\":", LevelToJSON[gs[g].lvl + 1],
                                        ",\"msg\":", Quoted(gs[g].msg), "}\n">>]
    /\ gs' = [gs EXCEPT ![g].pc = "fastwrite"]
    /\ UNCHANGED <<jMutex, fastVars>>

\* jWriter.w.Write(jWriter.buf.Bytes()): the sink receives what the buffer holds.
FastWrite(g) ==
    /\ gs[g].pc = "fastwrite"
    /\ jw' = [jw EXCEPT !.count = @ + 1,
                        !.out = [by |-> g, lvl |-> gs[g].lvl, msg |-> gs[g].msg,
                                 t |-> gs[g].t, bytes |-> jw.buf]]
    /\ gs' = [gs EXCEPT ![g].pc = "fastunlock", ![g].writes = @ + 1]
    /\ UNCHANGED <<jMutex, fastVars>>

\* jWriter.mutex.Unlock()
FastUnlock(g) ==
    /\ gs[g].pc = "fastunlock"
    /\ jMutex' = 0
    /\ gs' = [gs EXCEPT ![g].pc = "done"]
    /\ UNCHANGED <<jw, fastVars>>

NextFast ==
    \E g \in Goroutines :
        \/ FastCall(g) \/ FastLock(g) \/ BufReset(g) \/ BufOpen(g) \/ TsReset(g)
        \/ TsAppend(g) \/ BufWriteTs(g) \/ BufFprintf(g) \/ FastWrite(g)
        \/ FastUnlock(g) \/ Finish(g)

SpecFast == InitFast /\ [][NextFast]_vars

-----------------------------------------------------------------------------
(* LogRequest, one read of the threshold after the other, while other        *)
(* goroutines change the threshold.                                          *)

\* Thresholds the other goroutines switch between.
SwitchLevels == {Verbose, Info}

\* A goroutine enters LogRequest(r, msg): the gate reads the threshold, the
\* attributes of the request line are collected.
ReqCall(g) ==
    /\ gs[g].pc = "idle"
    /\ \E r \in Requests :
         gs' = [gs EXCEPT ![g] =
                  IF ~Log(Engine, Info)
                  THEN [IdleG EXCEPT !.pc = "done", !.op = "LogRequest", !.lvl = Info,
                                     !.req = r]
                  ELSE [IdleG EXCEPT !.pc = "first", !.op = "LogRequest", !.lvl = Info,
                                     !.req = r,
                                     !.attrs = <<"method", "url", "host", "proto",
                                                 "remote_addr">>]]
    /\ UNCHANGED <<levelInternal, Config, jMutex, stdMutex, inWrite, seqVars, otherVars>>

\* if !LogVerbose() { AddIfNotEmpty ... }, then the TLS attributes.
ReqFirst(g) ==
    /\ gs[g].pc = "first"
    /\ LET r == gs[g].req
           attr1 ==
               IF ~Log(Engine, Verbose)
               THEN AddIfNotEmpty(
                      AddIfNotEmpty(
                        AddIfNotEmpty(
                          AddIfNotEmpty(gs[g].attrs, "user-agent", "User-Agent" \in r.headers),
                          "header.x-forwarded-proto", "X-Forwarded-Proto" \in r.headers),
                        "header.x-forwarded-for", "X-Forwarded-For" \in r.headers),
                      "header.x-forwarded-host", "X-Forwarded-Host" \in r.headers)
               ELSE gs[g].attrs
       IN  gs' = [gs EXCEPT ![g].pc = "second", ![g].attrs = AppendTLSInfoAttrs(attr1, r)]
    /\ UNCHANGED <<levelInternal, Config, jMutex, stdMutex, inWrite, seqVars, otherVars>>

\* if LogVerbose() { all headers, sorted }
ReqSecond(g) ==
    /\ gs[g].pc = "second"
    /\ LET r == gs[g].req
           keys == SelectSeq(HeaderOrder, LAMBDA name : name \in r.headers)
       IN  gs' = [gs EXCEPT ![g].pc = "emit",
                            ![g].attrs =
                                IF Log(Engine, Verbose)
                                THEN @ \o [i \in 1..Len(keys) |-> HeaderKey(keys[i])]
                                ELSE @]
    /\ UNCHANGED <<levelInternal, Config, jMutex, stdMutex, inWrite, seqVars, otherVars>>

\* s(Info, false, Config.JSON, msg, attr...): gated once more, then rendered.
ReqEmit(g) ==
    /\ gs[g].pc = "emit"
    /\ LET ems == s(Engine, Info, FALSE, Config.JSON, gs[g].attrs)
       IN  gs' = [gs EXCEPT ![g].pc = IF ems = <<>> THEN "done" ELSE "lock",
                            ![g].em = IF ems = <<>> THEN NoEmission ELSE ems[1]]
    /\ UNCHANGED <<levelInternal, Config, jMutex, stdMutex, inWrite, seqVars, otherVars>>

\* A goroutine calls SetLogLevelQuiet(lvl): the threshold is stored atomically.
QuietSwitch(g) ==
    /\ gs[g].pc = "idle"
    /\ \E lvl \in SwitchLevels :
         LET r == setLogLevel(Engine, lvl, FALSE)
         IN  /\ levelInternal' = r.level
             /\ Config' = r.cfg
    /\ UNCHANGED <<concVars, seqVars, otherVars>>

NextReq ==
    \E g \in Goroutines :
        \/ ReqCall(g) \/ ReqFirst(g) \/ ReqSecond(g) \/ ReqEmit(g) \/ QuietSwitch(g)
        \/ Lock(g) \/ WriteBegin(g) \/ WriteEnd(g) \/ Unlock(g) \/ Finish(g)

SpecReq == InitConc /\ [][NextReq]_vars

-----------------------------------------------------------------------------
(* Properties *)

\* The sink writes of the last call, in order.
Written == SelectSeq(events, LAMBDA x : x.ev = "write")

\* The last call neither panicked nor called FatalExit.
ReturnedNormally == \A i \in 1..Len(events) : events[i].ev \in {"write", "store"}

\* The last call wrote exactly one record, at level lvl, and did nothing else.
WroteOne(lvl) ==
    /\ Len(events) = 1
    /\ events[1].ev = "write"
    /\ events[1].rec.level = lvl

LeveledOps == {"Debugf", "LogVf", "Infof", "Warnf", "Errf", "Critf", "Logf", "S"}

\* C1: a leveled call at level L in Debug..Fatal, made while the standard logger
\* is not intercepted, writes exactly one record (at L) to the sink if L is at or
\* above the threshold T, and nothing at all if L is below T.
C1_LevelGate ==
    (last.op \in LeveledOps /\ last.lvl \in Debug..Fatal /\ stdOut.kind = "sink") =>
        /\ last.t0 \in Debug..Critical
        /\ IF last.lvl >= last.t0 THEN WroteOne(last.lvl) ELSE events = <<>>

\* A call exactly at the threshold was logged.
C1_Witness ==
    /\ last.op = "Warnf"
    /\ last.t0 = Warning
    /\ WroteOne(Warning)

\* C2: in every reachable state the threshold is one of Debug..Critical, so
\* Critical and Fatal always pass the level gate.
C2_ThresholdInRange ==
    /\ levelInternal \in Debug..Critical
    /\ Log(Engine, Critical)
    /\ Log(Engine, Fatal)

\* The name Fatal was accepted by ValidateLevel and the threshold stayed Critical.
C2_Witness ==
    /\ last.op = "SetLogLevelStr"
    /\ last.str = "Fatal"
    /\ ~last.err
    /\ levelInternal = Critical

\* C3: SetLogLevel(l) and SetLogLevelQuiet(l) with l below Debug or above Critical
\* return -1, leave the threshold and Config.Level as they were, do not panic and
\* write exactly one Error record, whatever the threshold is.
C3_RejectedLevel ==
    (/\ last.op \in {"SetLogLevel", "SetLogLevelQuiet"}
     /\ (last.lvl < Debug \/ last.lvl > Critical)) =>
        /\ last.ret = -1
        /\ levelInternal = last.t0
        /\ Config.Level = last.c0
        /\ WroteOne(Error)

\* The quiet variant rejected Fatal while the threshold was Critical.
C3_Witness ==
    /\ last.op = "SetLogLevelQuiet"
    /\ last.lvl = Fatal
    /\ last.t0 = Critical
    /\ WroteOne(Error)

\* C4: SetLogLevel and SetLogLevelQuiet are an atomic exchange: a call that has
\* stored its level returns the threshold value that its store overwrote.
C4_AtomicExchange ==
    \A g \in DOMAIN gs :
        (gs[g].pc = "done" /\ gs[g].op = "setLogLevel" /\ gs[g].stored) =>
            gs[g].ret = gs[g].over

\* C5: at every moment at most one Write is in progress on the sink.
C5_OneWriteAtATime == Cardinality(inWrite) <= 1

\* C6: for every threshold, Fatalf first writes exactly one Fatal record and then
\* ends: a panic and no FatalExit if FatalPanics, otherwise exactly one
\* FatalExit(1) and no panic.
C6_Fatalf ==
    (last.op = "Fatalf") =>
        /\ Len(events) = 2
        /\ events[1].ev = "write"
        /\ events[1].rec.level = Fatal
        /\ events[2] = IF Config.FatalPanics THEN PanicEv ELSE ExitEv(1)

\* Fatalf with the threshold at Critical and FatalPanics off.
C6_Witness ==
    /\ last.op = "Fatalf"
    /\ last.t0 = Critical
    /\ ~Config.FatalPanics
    /\ Len(events) = 2

\* C7: only Fatalf panics or calls FatalExit: every other call returns normally,
\* Logf(Fatal), S(Fatal) and FErrf write the Fatal record, and FErrf returns 1.
C7_OnlyFatalfEnds ==
    /\ (last.op # "Fatalf") => ReturnedNormally
    /\ (last.op \in {"Logf", "S", "FErrf"} /\ last.lvl = Fatal) => WroteOne(Fatal)
    /\ (last.op = "FErrf") => last.ret = 1

\* FErrf under FatalPanics, with the threshold at Critical.
C7_Witness ==
    /\ last.op = "FErrf"
    /\ Config.FatalPanics
    /\ last.t0 = Critical
    /\ WroteOne(Fatal)

\* C8: for every threshold and in each render mode Printf writes exactly one
\* record, and the record has no file and line even when LogFileAndLine is set.
C8_Printf ==
    (last.op = "Printf") =>
        /\ WroteOne(NoLevel)
        /\ \A i \in 1..Len(events[1].rec.fields) :
               events[1].rec.fields[i] \notin {"file", "line"}

\* Printf in PlainText mode with LogFileAndLine set and the threshold at Critical.
C8_Witness ==
    /\ last.op = "Printf"
    /\ Config.LogFileAndLine
    /\ last.t0 = Critical
    /\ WroteOne(NoLevel)
    /\ events[1].rec.mode = "text"

\* The color flag the render functions read during the last call: init() renders
\* before it calls SetColorMode, no other call that logs changes the flag.
ColorAtRender == IF last.op = "init" THEN FALSE ELSE Color

\* The JSON flag of the last call: forced on the adapter path, Config.JSON otherwise.
JSONAtRender == IF last.op = "NewStdLogger.Print" THEN TRUE ELSE Config.JSON

FileLineApplies ==
    /\ Config.LogFileAndLine
    /\ last.op \notin {"Printf", "NewStdLogger.Print"}

\* The keys a JSON record of the last call is to have, in order.
ExpectedJSONKeys ==
    (IF Config.NoTimestamp THEN <<>> ELSE <<"ts">>)
    \o <<"level">>
    \o (IF Config.GoroutineID THEN <<"r">> ELSE <<>>)
    \o (IF FileLineApplies THEN <<"file", "line">> ELSE <<>>)
    \o <<"msg">>
    \o last.attrs

\* C10: every JSON record has the keys ts, level, r, file, line, msg, attributes
\* in this order; ts iff timestamps are not suppressed, r iff GoroutineID is
\* enabled, file and line iff file and line capture applies to the call.
C10_JSONKeys ==
    \A i \in 1..Len(Written) :
        (Written[i].rec.mode = "json") => Written[i].rec.fields = ExpectedJSONKeys

\* The level-name set: the names of LevelToStrA and their lower-case forms.
LevelNameSet ==
    {LevelToStrA[i] : i \in 1..Len(LevelToStrA)}
    \cup {ToLower(LevelToStrA[i]) : i \in 1..Len(LevelToStrA)}

\* The string the last call looked up in the level-name set: the flag setter
\* trims and lower-cases what it is given, the other two take it as it is.
LookedUp == IF last.op = "flag.Set" THEN ToLower(TrimSpace(last.str)) ELSE last.str

NamedLevel(str) ==
    IF \E i \in 1..Len(LevelToStrA) : ToLower(LevelToStrA[i]) = ToLower(str)
    THEN (CHOOSE i \in 1..Len(LevelToStrA) : ToLower(LevelToStrA[i]) = ToLower(str)) - 1
    ELSE -1

\* C12: a name of one of the levels Debug..Critical, in any letter case, is
\* accepted both by the command-line flag and from LOGGER_LEVEL in the
\* environment, and the level it names becomes the threshold.
C12_AnyCase ==
    /\ (last.op = "flag.Set" /\ NamedLevel(last.str) \in Debug..Critical) =>
            (~last.err /\ levelInternal = NamedLevel(last.str))
    /\ (last.op = "init" /\ NamedLevel(last.str) \in Debug..Critical) =>
            levelInternal = NamedLevel(last.str)

\* The attribute keys of a record: its fields after the message.
RECURSIVE AttrsOf(_)
AttrsOf(fields) ==
    IF fields = <<>> THEN <<>>
    ELSE IF Head(fields) = "msg" THEN Tail(fields)
    ELSE AttrsOf(Tail(fields))

\* How often the key occurs among the attributes.
Count(attrs, key) == Cardinality({i \in 1..Len(attrs) : attrs[i] = key})

\* The record carries exactly one attribute for every header of the request.
OnePerHeader(rec, r) ==
    \A name \in r.headers : Count(AttrsOf(rec.fields), HeaderKey(name)) = 1

\* The record starts with method, url, host, proto and remote address.
HoldsRequest(rec) ==
    /\ Len(AttrsOf(rec.fields)) >= 5
    /\ SubSeq(AttrsOf(rec.fields), 1, 5) = <<"method", "url", "host", "proto", "remote_addr">>

\* C13 as stated: LogRequest writes nothing when the threshold is above Info and
\* otherwise exactly one Info record with method, url, host, proto and remote
\* address; that record has one attribute per header of the request iff the
\* threshold is at or below Verbose.
C13_AsStated ==
    (last.op = "LogRequest") =>
        IF last.t0 > Info THEN events = <<>>
        ELSE /\ WroteOne(Info)
             /\ HoldsRequest(events[1].rec)
             /\ OnePerHeader(events[1].rec, last.req) <=> (last.t0 <= Verbose)

\* The headers that are logged above Verbose when they are not empty.
QuietHeaders == {"User-Agent", "X-Forwarded-Proto", "X-Forwarded-For", "X-Forwarded-Host"}

\* The headers of the request the record has exactly one attribute for; the
\* record has no attribute for the others.
HeadersLogged(rec, r) ==
    {name \in r.headers : Count(AttrsOf(rec.fields), HeaderKey(name)) = 1}

NoOtherHeader(rec, r) ==
    \A name \in r.headers :
        name \notin HeadersLogged(rec, r) => Count(AttrsOf(rec.fields), HeaderKey(name)) = 0

\* C13: LogRequest writes nothing when the threshold is above Info and otherwise
\* exactly one Info record with method, url, host, proto and remote address.  At
\* or below Verbose the record has one attribute per header of the request; above
\* Verbose it has one for each of User-Agent and X-Forwarded-Proto/For/Host that
\* the request has, and none for any other header.
C13_LogRequest ==
    (last.op = "LogRequest") =>
        IF last.t0 > Info THEN events = <<>>
        ELSE /\ WroteOne(Info)
             /\ HoldsRequest(events[1].rec)
             /\ NoOtherHeader(events[1].rec, last.req)
             /\ HeadersLogged(events[1].rec, last.req) =
                    IF last.t0 <= Verbose THEN last.req.headers
                    ELSE last.req.headers \cap QuietHeaders

\* At Info a request with an Accept and two forwarding headers was logged.
C13_Witness ==
    /\ last.op = "LogRequest"
    /\ last.t0 = Info
    /\ last.req.headers = {"Accept", "X-Forwarded-For", "X-Forwarded-Proto"}
    /\ WroteOne(Info)
    /\ HeadersLogged(events[1].rec, last.req) = {"X-Forwarded-For", "X-Forwarded-Proto"}

\* Event i of the last call is the write of an Info record.
InfoRecordAt(i) ==
    /\ i \in 1..Len(events)
    /\ events[i].ev = "write"
    /\ events[i].rec.level = Info

\* The record has the attributes status and size, once each.
HoldsResponse(rec) ==
    /\ Count(AttrsOf(rec.fields), "status") = 1
    /\ Count(AttrsOf(rec.fields), "size") = 1

\* The call wrote the request record, ran the handler, which returned, and then
\* wrote the response record: two records.
TwoRecords ==
    /\ Len(events) = 3
    /\ InfoRecordAt(1)
    /\ HoldsRequest(events[1].rec)
    /\ ~HoldsResponse(events[1].rec)
    /\ events[2] = HandlerEv(FALSE)
    /\ InfoRecordAt(3)
    /\ HoldsResponse(events[3].rec)
    /\ ~HoldsRequest(events[3].rec)

\* The call ran the handler, which returned, and then wrote one record with the
\* request attributes, status and size.
OneCombinedRecord ==
    /\ Len(events) = 2
    /\ events[1] = HandlerEv(FALSE)
    /\ InfoRecordAt(2)
    /\ HoldsRequest(events[2].rec)
    /\ HoldsResponse(events[2].rec)

\* C14: with the threshold at or below Info and a handler that returns, LogAndCall
\* with combined logging off writes the request record before the handler runs
\* and the response record (status, size) after it returns, two records in all;
\* with combined logging on it writes nothing before the handler runs and exactly
\* one record, with the request attributes, status and size, after it returns.
C14_Order ==
    (last.op = "LogAndCall" /\ ~last.panics /\ last.t0 <= Info) =>
        IF Config.CombineRequestAndResponse THEN OneCombinedRecord ELSE TwoRecords

\* Both modes at the threshold Info: here combined logging is off and the
\* handler failed a write.
C14_Witness ==
    /\ last.op = "LogAndCall"
    /\ ~last.panics
    /\ last.t0 = Info
    /\ ~Config.CombineRequestAndResponse
    /\ last.status = StatusInternalServerError
    /\ TwoRecords

\* The configuration of a process started without environment overrides and
\* without the client-tool preset, at the threshold init() sets.
InitialConfig ==
    /\ Config = [DefaultConfig EXCEPT !.Level = LevelString(Info)]
    /\ last.t0 = Info
    /\ levelInternal = Info

\* C15 as stated: in the initial process configuration LogAndCall logs the
\* request and the response as two separate records.
C15_AsStated ==
    (last.op = "LogAndCall" /\ ~last.panics /\ InitialConfig) => TwoRecords

\* C15: in the initial process configuration LogAndCall logs the request and the
\* response as one combined record, written after the handler has returned.
C15_InitialCombined ==
    (last.op = "LogAndCall" /\ ~last.panics /\ InitialConfig) => OneCombinedRecord

\* A request with headers was served under the initial configuration.
C15_Witness ==
    /\ last.op = "LogAndCall"
    /\ ~last.panics
    /\ InitialConfig
    /\ last.req.headers = {"Accept", "User-Agent"}
    /\ last.calls # <<>>
    /\ Len(Written) = 1

\* Event i of the last call is the write of a record at lvl with the attribute key.
RecordAt(i, lvl, key) ==
    /\ i \in 1..Len(events)
    /\ events[i].ev = "write"
    /\ events[i].rec.level = lvl
    /\ Count(AttrsOf(events[i].rec.fields), key) = 1

\* C16: with combined logging on, a panic of the handler is recovered in the
\* wrapper and does not propagate: the wrapper writes exactly one Critical record
\* with the panic value, then a stack-trace record iff the threshold is at or
\* below Verbose, then the combined request/response record iff Info is logged,
\* and returns normally.
C16_PanicRecovered ==
    (last.op = "LogAndCall" /\ last.panics /\ Config.CombineRequestAndResponse) =>
        LET stack == IF last.t0 <= Verbose THEN 1 ELSE 0
            info == IF last.t0 <= Info THEN 1 ELSE 0
        IN  /\ Len(events) = 2 + stack + info
            /\ events[1] = HandlerEv(TRUE)
            /\ \A i \in 2..Len(events) : events[i].ev = "write"
            /\ RecordAt(2, Critical, "error")
            /\ Cardinality({i \in 1..Len(events) : events[i].rec.level = Critical}) = 1
            /\ (stack = 1) => RecordAt(3, Verbose, "stack")
            /\ (info = 1) =>
                   /\ InfoRecordAt(Len(events))
                   /\ HoldsRequest(events[Len(events)].rec)
                   /\ HoldsResponse(events[Len(events)].rec)

\* A handler panicked after a write, at the threshold Debug: Critical record,
\* stack trace and combined record.
C16_Witness ==
    /\ last.op = "LogAndCall"
    /\ last.panics
    /\ Config.CombineRequestAndResponse
    /\ last.t0 = Debug
    /\ last.calls # <<>>
    /\ Len(events) = 4

\* The sum of the byte counts the underlying writer returned.
RECURSIVE SumSizes(_)
SumSizes(calls) ==
    IF calls = <<>> THEN 0 ELSE Head(calls).size + SumSizes(Tail(calls))

\* Call i on the recorder was a Write that failed / a WriteHeader.
FailedWrite(i) == rr.calls[i].call = "Write" /\ rr.calls[i].err
HeaderSet(i) == rr.calls[i].call = "WriteHeader"

\* C17: after any sequence of Write and WriteHeader on a ResponseRecorder:
\* if there was a Write, no WriteHeader and no failed Write, StatusCode is 200;
\* if a Write failed and no WriteHeader came after it, StatusCode is 500, whatever
\* WriteHeader set before and however many Writes succeeded since;
\* ContentLength is the sum of the byte counts the underlying writer returned,
\* those of failed writes included.
C17_Recorder ==
    LET n == Len(rr.calls)
    IN  /\ (/\ n > 0
             /\ \A i \in 1..n : ~HeaderSet(i) /\ ~FailedWrite(i)) =>
                rr.rec.StatusCode = StatusOK
        /\ (\E i \in 1..n : FailedWrite(i) /\ \A j \in (i + 1)..n : ~HeaderSet(j)) =>
                rr.rec.StatusCode = StatusInternalServerError
        /\ rr.rec.ContentLength = SumSizes(rr.calls)

\* WriteHeader(404), a Write that failed after one byte, a Write of two bytes.
C17_Witness ==
    /\ rr.calls = <<WriteHeaderCall(404), WriteCall(1, TRUE), WriteCall(2, FALSE)>>
    /\ rr.rec.StatusCode = StatusInternalServerError
    /\ rr.rec.ContentLength = 3

\* The mutex is held by goroutine g of a call that is between its Lock and its
\* Unlock on that mutex.
HeldInCall(mutex, via) ==
    mutex # 0 =>
        /\ gs[mutex].pc \in {"write", "writing", "unlock"}
        /\ gs[mutex].em.via = via

\* C18: when Write on the sink returns an error, the logging call returns
\* normally, has made no other Write (no record about the failure), has released
\* the mutex it took, so that the mutexes are only ever held by calls that are
\* between Lock and Unlock and the other callers can go on, and has left the
\* threshold and the configuration as they were.
C18_SinkError ==
    /\ HeldInCall(jMutex, "jWriter")
    /\ HeldInCall(stdMutex, "std")
    /\ \A g \in DOMAIN gs :
          (gs[g].pc = "done" /\ gs[g].werr) =>
              /\ gs[g].writes = 1
              /\ jMutex # g /\ stdMutex # g
              /\ g \notin inWrite
    /\ levelInternal = Info
    /\ Config \in ConcConfigs

\* A call whose Write failed has returned, and another goroutine has taken the
\* same mutex since and is inside Write.
C18_Witness ==
    \E g1, g2 \in DOMAIN gs :
        /\ g1 # g2
        /\ gs[g1].pc = "done" /\ gs[g1].werr /\ gs[g1].em.via = "jWriter"
        /\ jMutex = g2
        /\ gs[g2].pc = "writing"

\* C19: a record S writes for the attributes a1..an has, in each render mode,
\* exactly these n attributes after the message, in the order given; attributes
\* with the same key are all there.
C19_AttrsInOrder ==
    (last.op = "S") =>
        \A i \in 1..Len(Written) :
            /\ Written[i].rec.mode \in {"color", "json", "text"}
            /\ AttrsOf(Written[i].rec.fields) = last.attrs

\* S with a key given twice, rendered as PlainText.
C19_Witness ==
    /\ last.op = "S"
    /\ last.attrs = <<"a", "b", "a">>
    /\ Len(Written) = 1
    /\ Written[1].rec.mode = "text"
    /\ AttrsOf(Written[1].rec.fields) = <<"a", "b", "a">>

\* C20: as long as no control endpoint has been called, a Check for the
\* configured service answers SERVING while the time since the start is below
\* delay-unhealthy-sec and NOT_SERVING from then on; with a negative delay it
\* answers SERVING for ever, with the delay 0 NOT_SERVING from the first Check on.
\* A Check for any other service name answers NotFound in every state.
C20_Health ==
    (hc.run /\ hc.check.made) =>
        /\ (hc.check.service # hc.service) => hc.check.result = "NotFound"
        /\ (hc.check.service = hc.service /\ ~hc.check.ctl) =>
               hc.check.result =
                   IF hc.delayUnhealthySec < 0 THEN "SERVING"
                   ELSE IF hc.check.at < hc.delayUnhealthySec * TicksPerSec THEN "SERVING"
                   ELSE "NOT_SERVING"

\* With a delay of one second, a Check exactly one second after the start.
C20_Witness ==
    /\ hc.run
    /\ hc.delayUnhealthySec = 1
    /\ hc.check.made
    /\ hc.check.service = hc.service
    /\ ~hc.check.ctl
    /\ hc.check.at = TicksPerSec
    /\ hc.check.result = "NOT_SERVING"

\* C21: once a /make-not-serving request has completed, every Check for the
\* configured service answers NOT_SERVING until a /make-serving request is made,
\* also a Check answered while a further /make-not-serving request is running.
C21_ForcedNotServing ==
    (hc.run /\ hc.check.made /\ hc.check.service = hc.service /\ hc.check.forced) =>
        hc.check.result = "NOT_SERVING"

\* C22: after init and after every SetOutput, SetColorMode and
\* SetDefaultsForClientTools the cached Color flag is ForceColor or (ConsoleColor
\* and the sink is a console), Colors holds the ANSI escape codes if Color is
\* true and only empty strings otherwise, and LevelToColor is the mapping of the
\* levels built from that palette.
C22_ColorCache ==
    (last.op \in {"init", "SetOutput", "SetColorMode", "SetDefaultsForClientTools"}) =>
        /\ Color = (Config.ForceColor \/ (Config.ConsoleColor /\ console))
        /\ Color => Colors = ANSIColors
        /\ ~Color => \A k \in DOMAIN Colors : Colors[k] = ""
        /\ LevelToColor = <<Colors.Gray, Colors.Cyan, Colors.Green, Colors.Yellow,
                            Colors.Red, Colors.Purple, Colors.BrightRed, Colors.Green>>

\* The sink was switched from a console to a file: the colors went off.
C22_Witness ==
    /\ last.op = "SetOutput"
    /\ ~console
    /\ Config.ConsoleColor /\ ~Config.ForceColor
    /\ ~Color
    /\ LevelToColor[Error + 1] = ""

\* C23: Config.Level is the canonical name of the threshold after init, whatever
\* LOGGER_LEVEL is (valid, invalid or not set), and after every SetLogLevel,
\* SetLogLevelQuiet and SetLogLevelStr call.
C23_LevelInSync ==
    (last.op \in {"init", "SetLogLevel", "SetLogLevelQuiet", "SetLogLevelStr"}) =>
        Config.Level = LevelString(levelInternal)

\* The last call wrote one Info record and stored the level afterwards.
AnnouncedThenStored ==
    /\ Len(events) = 2
    /\ events[1].ev = "write"
    /\ events[1].rec.level = Info
    /\ events[2] = StoreEv(last.lvl)

\* The last call stored the level and wrote nothing.
StoredOnly == events = <<StoreEv(last.lvl)>>

\* A SetLogLevel or SetLogLevelQuiet call with a level of Debug..Critical.
ValidLevelCall ==
    /\ last.op \in {"SetLogLevel", "SetLogLevelQuiet"}
    /\ last.lvl \in Debug..Critical

\* C24 as stated: SetLogLevel from prev to a different valid level writes one Info
\* record iff prev <= Info, before the new threshold is stored; SetLogLevelQuiet,
\* and any call whose level is prev, write no record and leave the threshold as
\* it was.
C24_AsStated ==
    ValidLevelCall =>
        /\ (last.op = "SetLogLevel" /\ last.lvl # last.t0) =>
               /\ levelInternal = last.lvl
               /\ IF last.t0 <= Info THEN AnnouncedThenStored ELSE StoredOnly
        /\ (last.op = "SetLogLevelQuiet" \/ last.lvl = last.t0) =>
               /\ Written = <<>>
               /\ levelInternal = last.t0

\* C24: SetLogLevel from prev to a different valid level writes one Info record
\* iff prev <= Info, before the new threshold is stored; SetLogLevelQuiet to a
\* different valid level stores it and writes no record; a call whose level is
\* prev writes no record and leaves the threshold as it was.
C24_LevelChange ==
    ValidLevelCall =>
        /\ (last.op = "SetLogLevel" /\ last.lvl # last.t0) =>
               /\ levelInternal = last.lvl
               /\ IF last.t0 <= Info THEN AnnouncedThenStored ELSE StoredOnly
        /\ (last.op = "SetLogLevelQuiet" /\ last.lvl # last.t0) =>
               /\ levelInternal = last.lvl
               /\ StoredOnly
        /\ (last.lvl = last.t0) =>
               /\ events = <<>>
               /\ levelInternal = last.t0

\* The threshold was raised from Info to Error: announced, although the new
\* threshold does not log Info.
C24_Witness ==
    /\ last.op = "SetLogLevel"
    /\ last.t0 = Info
    /\ last.lvl = Error
    /\ levelInternal = Error
    /\ AnnouncedThenStored

\* The entry points that can write a record with file and line.
FileLineOps ==
    {"Debugf", "LogVf", "Infof", "Warnf", "Errf", "Critf", "Fatalf", "FErrf", "Logf",
     "Logger.Printf", "S", "SetLogLevel", "SetLogLevelQuiet", "SetLogLevelStr", "flag.Set"}

\* C25: whenever one of these entry points writes a record with file and line,
\* the frame reported is the function that called the entry point, never a
\* function of the logging package.
C25_CallSite ==
    (last.op \in FileLineOps /\ last.frame # "none") => last.frame = "app"

\* The record logSimpleJSON renders for one call.
FastRecord(lvl, msg, t) ==
    <<"{\"ts\":", ToString(t) \o ".000000", ",\"level\":", LevelToJSON[lvl + 1],
      ",\"msg\":", "\"" \o msg \o "\"", "}\n">>

\* The positions of logSimpleJSON between Lock and Unlock.
InFastSection == {"reset", "open", "now", "appendTs", "writeTs", "fprintf", "fastwrite",
                  "fastunlock"}

\* C26: with several goroutines on the JSON fast path, every Write on the sink
\* receives exactly the complete record of the one call that made it, and a
\* goroutine that resets, fills or writes the shared buffer or the timestamp
\* buffer holds the writer mutex.
C26_FastPath ==
    /\ jw.out # NoWrite => jw.out.bytes = FastRecord(jw.out.lvl, jw.out.msg, jw.out.t)
    /\ \A g \in DOMAIN gs : gs[g].pc \in InFastSection => jMutex = g

\* A second record has been written from the reused buffer while another
\* goroutine waits for the mutex with a different message.
C26_Witness ==
    \E g1, g2 \in DOMAIN gs :
        /\ g1 # g2
        /\ gs[g1].pc = "fastlock"
        /\ gs[g2].pc = "fastunlock"
        /\ gs[g1].msg # gs[g2].msg
        /\ jw.count = 2
        /\ jw.out.by = g2
        /\ jw.out.bytes = FastRecord(Error, gs[g2].msg, 1)

\* The last call wrote a record with a status attribute.
StatusLogged ==
    \E i \in 1..Len(Written) : Count(AttrsOf(Written[i].rec.fields), "status") = 1

\* C27: the status LogAndCall logs (the StatusCode of its recorder when the
\* handler has returned) is never 0; for a handler that returned without calling
\* Write or WriteHeader, also after a recovered panic, it is 200.
C27_StatusNeverZero ==
    (last.op = "LogAndCall" /\ StatusLogged) =>
        /\ last.status # 0
        /\ (last.calls = <<>>) => last.status = StatusOK

\* C28: a record LogRequest writes for a request with a User-Agent header has
\* exactly one user-agent attribute, also when another goroutine switches the
\* threshold between Info and Verbose while LogRequest runs.
C28_OneUserAgent ==
    \A g \in DOMAIN gs :
        (/\ gs[g].op = "LogRequest"
         /\ gs[g].em # NoEmission
         /\ "User-Agent" \in gs[g].req.headers) =>
            Count(AttrsOf(gs[g].em.rec.fields), "user-agent") = 1

\* C29: with the standard logger intercepted at any level l, a call of the
\* engine's own entry points that is rendered as PlainText still writes exactly
\* one record when its own level passes the threshold (Printf: always), whatever
\* l is, and nothing else happens.
C29_Intercepted ==
    (/\ last.op \in {"Errf", "Printf"}
     /\ stdOut.kind = "logWriter"
     /\ ~Color /\ ~Config.JSON) =>
        IF last.op = "Printf" \/ last.lvl >= last.t0
        THEN Len(events) = 1 /\ Len(Written) = 1
        ELSE events = <<>>

\* C30: for every name ValidateLevel accepts, Fatal and fatal included,
\* SetLogLevelStr and the flag setter return a nil error exactly when the
\* threshold after the call is the level the name stands for.
C30_NilIffSet ==
    (/\ last.op \in {"SetLogLevelStr", "flag.Set"}
     /\ LookedUp \in DOMAIN levelToStrM) =>
        (~last.err <=> levelInternal = levelToStrM[LookedUp])

====
